---- MODULE Spec2Model ----
(***************************************************************************)
(* Model of mock-http-connector: the Connector registry (ordered cases,    *)
(* first-match dispatch, per-case counters, checkpoint) and the MockStream *)
(* transport (write side accumulating and parsing request bytes, read side *)
(* delivering the serialized response).                                    *)
(*                                                                         *)
(* Bytes are modelled as a sequence of units.  A unit of the request is a  *)
(* token [t, n, v]: a complete method ("GET "), the rest of the request    *)
(* line ("/a HTTP/1.1\r\n"), a header line ("n: v\r\n"), the blank line    *)
(* that ends the head, a chunk of body bytes, or bytes httparse rejects.   *)
(***************************************************************************)
EXTENDS Integers, Sequences, FiniteSets, TLC

VARIABLES
    cases,      \* InnerConnector.cases: Vec<Case>, fixed once the connector is built
    level,      \* InnerConnector.level
    seen,       \* Case.seen of every case, by index
    uri,        \* MockStream.uri: the connection target
    res,        \* MockStream.res: ResponseState
    req_data,   \* MockStream.req_data: every byte written so far
    waker,      \* MockStream.waker: Option<Waker>
    fut_waker,  \* the waker a pending response future registered at its last poll
    last,       \* what the most recent call returned and did
    ck_hist,    \* history: the result of the latest checkpoint() and whether one or
                \* several calls returned it, forgotten at the next dispatch
    \* several handles and transports on one registry (SpecShared)
    inners,     \* the InnerConnector allocations: the counters of each
    handles,    \* the Connector values alive: each the allocation its Arc points to
    conns,      \* the transports made by call(): where each is in its dispatch
    invoked,    \* history: how many times the responder of each case was invoked
    ck_of,      \* the latest checkpoint(): the handle it was called on, its result
    \* one function applied to one input (SpecWith)
    fn_in,      \* the arguments
    fn_out,     \* what the function returned, once it was called
    \* one case being declared (SpecBuilder)
    cb,         \* the CaseBuilder
    cb_ret      \* what returning() returned

\* the state of one transport, followed write by write and read by read
single == <<seen, uri, res, req_data, waker, fut_waker, last, ck_hist>>
\* the state of several handles and transports
shared == <<inners, handles, conns, invoked, ck_of>>

\* the state of a function call
pure == <<fn_in, fn_out>>

\* the state of a case declaration
building == <<cb, cb_ret>>

vars == <<cases, level, seen, uri, res, req_data, waker, fut_waker, last, ck_hist,
          inners, handles, conns, invoked, ck_of, fn_in, fn_out, cb, cb_ret>>

----------------------------------------------------------------------------
\* Bounds of the model

MaxCases == 2
MaxReadBuf == 2
MaxStreams == 2
MaxHandles == 2
MaxReqHeaders == 2
MaxJsonLen == 2
MaxSteps == 3
MaxPaths == 4
MaxChunks == 2

----------------------------------------------------------------------------
\* Values

None == "None"
Wakers == {"w1", "w2"}

LevelNone == 0
LevelError == 1
LevelMissing == 2
Levels == {LevelNone, LevelError, LevelMissing}
\* #[default]
Level_default == LevelMissing
\* Ord for Level: the order of the u8 representations
Level_cmp(a, b) == IF a < b THEN "Less" ELSE IF a = b THEN "Equal" ELSE "Greater"

MaxHeaders == 64

Some(x) == [some |-> TRUE, v |-> x]
NoCount == [some |-> FALSE, v |-> 0]

Uri(a, p) == [scheme |-> "http", authority |-> a, path |-> p]
NoUri == Uri("", "")

Tok(t, n, v) == [t |-> t, n |-> n, v |-> v]
TMethod(m) == Tok("method", "", m)
TPath(p) == Tok("path", "", p)
THeader(n, v) == Tok("header", n, v)
TEnd == Tok("end", "", "")
TBody(b) == Tok("body", "", b)
TBad == Tok("bad", "", "")

InvalidUtf8 == "0xFF"
EMPTY_HEADER == <<"", "">>

\* the bytes of tokens that are not parsed: the body
Bytes(tokens) == [i \in 1..Len(tokens) |-> tokens[i].v]

Range(s) == {s[i] : i \in 1..Len(s)}

IsPrefix(s, t) == Len(s) <= Len(t) /\ SubSeq(t, 1, Len(s)) = s

----------------------------------------------------------------------------
\* httparse::Request::parse as poll_write uses it, over the whole buffer

RECURSIVE parse_headers(_, _, _)
parse_headers(data, i, hdrs) ==
    IF i > Len(data) THEN [status |-> "Partial", headers |-> hdrs, body_pos |-> 0]
    ELSE IF data[i].t = "header"
         THEN IF Len(hdrs) >= MaxHeaders
              THEN [status |-> "Error", headers |-> hdrs, body_pos |-> 0]
              ELSE parse_headers(data, i + 1, Append(hdrs, <<data[i].n, data[i].v>>))
    ELSE IF data[i].t = "end"
         THEN [status |-> "Complete", headers |-> hdrs, body_pos |-> i + 1]
    ELSE [status |-> "Error", headers |-> hdrs, body_pos |-> 0]

\* The result leaves in the Request what was parsed before the bytes ran out.  On
\* Complete the header array is cut to the parsed headers; on Partial the caller's
\* array is put back whole: the headers parsed so far, then the slots never
\* written, which still hold EMPTY_HEADER (empty_slots counts them).
parse(data) ==
    LET blank == [status |-> "Partial", method |-> None, path |-> None,
                  headers |-> <<>>, empty_slots |-> MaxHeaders, body_pos |-> 0]
        error == [blank EXCEPT !.status = "Error"]
    IN  IF Len(data) < 1 THEN blank
        ELSE IF data[1].t # "method" THEN error
        ELSE IF Len(data) < 2 THEN [blank EXCEPT !.method = data[1].v]
        ELSE IF data[2].t # "path" THEN error
        ELSE LET h == parse_headers(data, 3, <<>>)
             IN  [status |-> h.status, method |-> data[1].v, path |-> data[2].v,
                  headers |-> h.headers,
                  empty_slots |-> IF h.status = "Complete" THEN 0
                                  ELSE MaxHeaders - Len(h.headers),
                  body_pos |-> h.body_pos]

----------------------------------------------------------------------------
\* The request given to matchers

NoReq == [method |-> "", uri |-> NoUri, headers |-> <<>>, body |-> <<>>]

from_utf8_ok(body) == \A i \in 1..Len(body) : body[i] # InvalidUtf8

\* mutant: the path of the request line is dropped and the target is kept whole
into_request_keeps_target(parsed, body, target) ==
    IF ~from_utf8_ok(body) THEN [ok |-> FALSE, req |-> NoReq]
    ELSE [ok |-> TRUE,
          req |-> [method |-> IF parsed.method # None THEN parsed.method ELSE "GET",
                   uri |-> target,
                   headers |-> SelectSeq(parsed.headers, LAMBDA h : h[1] # EMPTY_HEADER[1]),
                   body |-> body]]

into_request(parsed, body, target) ==
    IF ~from_utf8_ok(body) THEN [ok |-> FALSE, req |-> NoReq]
    ELSE [ok |-> TRUE,
          req |-> [method |-> IF parsed.method # None THEN parsed.method ELSE "GET",
                   uri |-> IF parsed.path # None
                           THEN [target EXCEPT !.path = parsed.path]
                           ELSE target,
                   \* the empty_slots entries have an empty name and are skipped
                   headers |-> SelectSeq(parsed.headers, LAMBDA h : h[1] # EMPTY_HEADER[1]),
                   body |-> body]]

----------------------------------------------------------------------------
\* Matchers (trait With)

Match == [err |-> FALSE, match |-> TRUE, reasons |-> {}]
Mismatch(reasons) == [err |-> FALSE, match |-> FALSE, reasons |-> reasons]
WithErr == [err |-> TRUE, match |-> FALSE, reasons |-> {}]

\* impl From<bool> for Report
ReportFromBool(b) == IF b THEN Match ELSE Mismatch({})

\* impl From<Vec<Reason>> for Report
ReportFromVec(v) == IF v = <<>> THEN Match ELSE Mismatch(Range(v))

\* serde_json::Value: kind, scalar text, and the entries of an array (key "") or
\* of an object (sorted by key, as the Map keeps them)
JNull == [k |-> "null", s |-> "", items |-> <<>>]
JBool(b) == [k |-> "bool", s |-> IF b THEN "true" ELSE "false", items |-> <<>>]
JNum(n) == [k |-> "number", s |-> n, items |-> <<>>]
JStr(x) == [k |-> "string", s |-> x, items |-> <<>>]
JArr(vs) == [k |-> "array", s |-> "",
             items |-> [i \in 1..Len(vs) |-> [key |-> "", val |-> vs[i]]]]
JObj(kvs) == [k |-> "object", s |-> "",
              items |-> [i \in 1..Len(kvs) |-> [key |-> kvs[i][1], val |-> kvs[i][2]]]]

\* the documents of the JSON texts used here
DocA1 == JObj(<< <<"a", JNum("1")>> >>)
DocA1B2 == JObj(<< <<"a", JNum("1")>>, <<"b", JNum("2")>> >>)

\* serde_json::from_str on the body: a document, or an error when the body is not
\* one JSON text (the empty body is none)
from_str(body) ==
    CASE body = <<"{\"a\":1}">> -> [ok |-> TRUE, v |-> DocA1]
      [] body = <<"{\"a\":1,\"b\":2}">> -> [ok |-> TRUE, v |-> DocA1B2]
      [] body = <<"{\"b\":2,\"a\":1}">> -> [ok |-> TRUE, v |-> DocA1B2]
      [] body = <<"1">> -> [ok |-> TRUE, v |-> JNum("1")]
      [] OTHER -> [ok |-> FALSE, v |-> JNull]

\* mutant: the derived equality of Value instead of containment
json_eq_exact(a, b) == a = b

\* JsonEq::json_eq: everything of `a` is in `b`
RECURSIVE json_eq(_, _)
json_eq(a, b) ==
    CASE a.k = "array" ->
            /\ b.k = "array"
            /\ \A i \in 1..Len(a.items) : \E j \in 1..Len(b.items) :
                  json_eq(a.items[i].val, b.items[j].val)
      [] a.k = "object" ->
            /\ b.k = "object"
            /\ \A i \in 1..Len(a.items) : \E j \in 1..Len(b.items) :
                  /\ b.items[j].key = a.items[i].key
                  /\ json_eq(a.items[i].val, b.items[j].val)
      [] OTHER -> a = b

NoBody == [kind |-> "None", v |-> <<>>, json |-> JNull]
BodyString(b) == [kind |-> "String", v |-> b, json |-> JNull]
BodyJson(d) == [kind |-> "Json", v |-> <<>>, json |-> d]
BodyJsonPartial(d) == [kind |-> "JsonPartial", v |-> <<>>, json |-> d]

DefaultWith ==
    [kind |-> "default", f |-> "", uri |-> [some |-> FALSE, v |-> NoUri],
     method |-> None, headers |-> <<>>, body |-> NoBody]
Closure(f) == [DefaultWith EXCEPT !.kind = "closure", !.f = f]
WithHandler(u, m, h, b) ==
    [kind |-> "handler", f |-> "", uri |-> u, method |-> m, headers |-> h, body |-> b]

AtLeastOnce(n, v) == [name |-> n, check |-> "AtLeastOnce", values |-> <<v>>]
ExactlyOnce(n, v) == [name |-> n, check |-> "ExactlyOnce", values |-> <<v>>]
All(n, vs) == [name |-> n, check |-> "All", values |-> vs]

\* HeaderMap::get_all
get_all(headers, key) ==
    LET sel == SelectSeq(headers, LAMBDA h : h[1] = key)
    IN  [i \in 1..Len(sel) |-> sel[i][2]]

Occurrences(s, x) == Cardinality({i \in 1..Len(s) : s[i] = x})

\* mutant: exactly-once counts the entries equal to the expected value
check_headers_once_equal(req_headers, key, value) ==
    LET req_values == get_all(req_headers, key)
    IN  CASE value.check = "AtLeastOnce" ->
                \E i \in 1..Len(req_values) : req_values[i] = value.values[1]
          [] value.check = "ExactlyOnce" ->
                Occurrences(req_values, value.values[1]) = 1
          [] value.check = "All" ->
                /\ Len(req_values) = Len(value.values)
                /\ \A x \in Range(req_values) \cup Range(value.values) :
                       Occurrences(req_values, x) = Occurrences(value.values, x)

\* mutant: all compares the values in the order they come, unsorted
check_headers_all_ordered(req_headers, key, value) ==
    LET req_values == get_all(req_headers, key)
    IN  CASE value.check = "AtLeastOnce" ->
                \E i \in 1..Len(req_values) : req_values[i] = value.values[1]
          [] value.check = "ExactlyOnce" ->
                /\ Len(req_values) = 1
                /\ \E i \in 1..Len(req_values) : req_values[i] = value.values[1]
          [] value.check = "All" -> req_values = value.values

\* mutant: at-least-once looks at the first entry of that name only
check_headers_first_only(req_headers, key, value) ==
    LET req_values == get_all(req_headers, key)
    IN  CASE value.check = "AtLeastOnce" ->
                Len(req_values) >= 1 /\ req_values[1] = value.values[1]
          [] value.check = "ExactlyOnce" ->
                /\ Len(req_values) = 1
                /\ \E i \in 1..Len(req_values) : req_values[i] = value.values[1]
          [] value.check = "All" ->
                /\ Len(req_values) = Len(value.values)
                /\ \A x \in Range(req_values) \cup Range(value.values) :
                       Occurrences(req_values, x) = Occurrences(value.values, x)

check_headers(req_headers, key, value) ==
    LET req_values == get_all(req_headers, key)
    IN  CASE value.check = "AtLeastOnce" ->
                \E i \in 1..Len(req_values) : req_values[i] = value.values[1]
          [] value.check = "ExactlyOnce" ->
                /\ Len(req_values) = 1
                /\ \E i \in 1..Len(req_values) : req_values[i] = value.values[1]
          [] value.check = "All" ->
                /\ Len(req_values) = Len(value.values)
                /\ \A x \in Range(req_values) \cup Range(value.values) :
                       Occurrences(req_values, x) = Occurrences(value.values, x)

RECURSIVE header_reasons(_, _, _)
header_reasons(w, req, i) ==
    IF i > Len(w.headers) THEN <<>>
    ELSE (IF check_headers(req.headers, w.headers[i].name, w.headers[i])
          THEN <<>>
          ELSE << <<"Header", w.headers[i].name>> >>)
         \o header_reasons(w, req, i + 1)

\* mutant: the exact JSON constraint compares with json_eq, as the partial one
WithHandler_with_json_contained(w, req) ==
    LET r_method == IF w.method # None /\ w.method # req.method
                    THEN << <<"Method", "">> >> ELSE <<>>
        r_uri == IF w.uri.some /\ w.uri.v # req.uri
                 THEN << <<"Uri", "">> >> ELSE <<>>
        r_headers == header_reasons(w, req, 1)
        payload == from_str(req.body)
        r_body == CASE w.body.kind = "String" ->
                         IF w.body.v # req.body THEN << <<"Body", "">> >> ELSE <<>>
                    [] w.body.kind \in {"Json", "JsonPartial"} ->
                         IF ~json_eq(w.body.json, payload.v)
                         THEN << <<"Body", "">> >> ELSE <<>>
                    [] OTHER -> <<>>
    IN  IF w.body.kind \in {"Json", "JsonPartial"} /\ ~payload.ok THEN WithErr
        ELSE ReportFromVec(r_method \o r_uri \o r_headers \o r_body)

\* mutant: a body that is no JSON text fails the body constraint like any other body
WithHandler_with_body_mismatch(w, req) ==
    LET r_method == IF w.method # None /\ w.method # req.method
                    THEN << <<"Method", "">> >> ELSE <<>>
        r_uri == IF w.uri.some /\ w.uri.v # req.uri
                 THEN << <<"Uri", "">> >> ELSE <<>>
        r_headers == header_reasons(w, req, 1)
        payload == from_str(req.body)
        r_body == CASE w.body.kind = "String" ->
                         IF w.body.v # req.body THEN << <<"Body", "">> >> ELSE <<>>
                    [] w.body.kind = "Json" ->
                         IF w.body.json # payload.v THEN << <<"Body", "">> >> ELSE <<>>
                    [] w.body.kind = "JsonPartial" ->
                         IF ~json_eq(w.body.json, payload.v)
                         THEN << <<"Body", "">> >> ELSE <<>>
                    [] OTHER -> <<>>
    IN
        IF w.body.kind \in {"Json", "JsonPartial"} /\ ~payload.ok
        THEN ReportFromVec(r_method \o r_uri \o r_headers \o << <<"Body", "">> >>)
        ELSE ReportFromVec(r_method \o r_uri \o r_headers \o r_body)

\* impl With for WithHandler; every check runs and pushes its Reason
WithHandler_with(w, req) ==
    LET r_method == IF w.method # None /\ w.method # req.method
                    THEN << <<"Method", "">> >> ELSE <<>>
        r_uri == IF w.uri.some /\ w.uri.v # req.uri
                 THEN << <<"Uri", "">> >> ELSE <<>>
        r_headers == header_reasons(w, req, 1)
        payload == from_str(req.body)
        r_body == CASE w.body.kind = "String" ->
                         IF w.body.v # req.body THEN << <<"Body", "">> >> ELSE <<>>
                    [] w.body.kind = "Json" ->
                         IF w.body.json # payload.v THEN << <<"Body", "">> >> ELSE <<>>
                    [] w.body.kind = "JsonPartial" ->
                         IF ~json_eq(w.body.json, payload.v)
                         THEN << <<"Body", "">> >> ELSE <<>>
                    [] OTHER -> <<>>
    IN  \* the `?` on from_str returns the error and drops the reasons
        IF w.body.kind \in {"Json", "JsonPartial"} /\ ~payload.ok THEN WithErr
        ELSE ReportFromVec(r_method \o r_uri \o r_headers \o r_body)

\* impl With for F: the closure's Result, its error boxed
Closure_with(f, req) ==
    CASE f = "fails" -> WithErr
      [] f = "is_post" -> ReportFromBool(req.method = "POST")

\* case.with.with(&req)
With_with(w, req) ==
    CASE w.kind = "default" -> Match
      [] w.kind = "closure" -> Closure_with(w.f, req)
      [] w.kind = "handler" -> WithHandler_with(w, req)

----------------------------------------------------------------------------
\* Responders (trait Returning) and the future they return

NoOut == [ok |-> FALSE, status |-> 0, headers |-> <<>>, body |-> <<>>]
NoFut == [case |-> 0, ready |-> FALSE, done |-> FALSE, out |-> NoOut]

\* a literal (status, body) tuple
Value(status, body) ==
    [kind |-> "value", lit |-> "tuple", status |-> status, headers |-> <<>>,
     body |-> body]
\* a literal &str, String or Cow<str>: a body and no status
Str(body) ==
    [kind |-> "value", lit |-> "str", status |-> 0, headers |-> <<>>, body |-> body]
\* a literal StatusCode or u16: a status and an empty body
Status(n) ==
    [kind |-> "value", lit |-> "status", status |-> n, headers |-> <<>>, body |-> <<>>]
\* a closure whose future completes later with a response it built
AsyncResponse(status, headers, body) ==
    [kind |-> "async_fn", lit |-> "", status |-> status, headers |-> headers,
     body |-> body]
AsyncFn(status, body) == AsyncResponse(status, <<>>, body)

\* mutant: every integer is taken as a status code
StatusCodeOk_any(n) == TRUE

\* StatusCode::try_from(u16)
StatusCodeOk(n) == n >= 100 /\ n < 1000

\* mutant: the future of a literal is not ready when it is first polled
returning_deferred(r, i) ==
    LET status == IF r.lit = "str" THEN 200 ELSE r.status
    IN  [case |-> i,
         ready |-> FALSE,
         done |-> FALSE,
         out |-> IF StatusCodeOk(status)
                 THEN [ok |-> TRUE, status |-> status, headers |-> r.headers,
                       body |-> r.body]
                 ELSE NoOut]

\* Returning::returning: the status closure of a literal without status gives
\* StatusCode::OK; the future of a literal holds its result already
returning(r, i) ==
    LET status == IF r.lit = "str" THEN 200 ELSE r.status
    IN  [case |-> i,
         ready |-> r.kind = "value",
         done |-> FALSE,
         out |-> IF StatusCodeOk(status)
                 THEN [ok |-> TRUE, status |-> status, headers |-> r.headers,
                       body |-> r.body]
                 ELSE NoOut]

----------------------------------------------------------------------------
\* Connector

\* mutant: the scan goes through every case and the last Match wins
scan_last_match(cs, req, i, reports) ==
    LET hits == {k \in i..Len(cs) : With_with(cs[k].with, req).match}
        errs == {k \in i..Len(cs) : With_with(cs[k].with, req).err}
    IN  IF errs # {} THEN [ret |-> "Err", case |-> 0, reports |-> reports]
        ELSE IF hits = {} THEN [ret |-> "NotFound", case |-> 0, reports |-> reports]
        ELSE [ret |-> "Match", reports |-> reports,
              case |-> CHOOSE k \in hits : \A h \in hits : h <= k]

\* mutant: a matcher that fails counts as a mismatch
RECURSIVE scan_skips_errors(_, _, _, _)
scan_skips_errors(cs, req, i, reports) ==
    IF i > Len(cs) THEN [ret |-> "NotFound", case |-> 0, reports |-> reports]
    ELSE LET r == With_with(cs[i].with, req)
         IN  IF r.match THEN [ret |-> "Match", case |-> i, reports |-> reports]
             ELSE scan_skips_errors(cs, req, i + 1, Append(reports, <<i, r.reasons>>))

\* the scan of InnerConnector::matches: stops at the first Match or error
RECURSIVE scan(_, _, _, _)
scan(cs, req, i, reports) ==
    IF i > Len(cs) THEN [ret |-> "NotFound", case |-> 0, reports |-> reports]
    ELSE LET r == With_with(cs[i].with, req)
         IN  IF r.err THEN [ret |-> "Err", case |-> i, reports |-> reports]
             ELSE IF r.match THEN [ret |-> "Match", case |-> i, reports |-> reports]
             ELSE scan(cs, req, i + 1, Append(reports, <<i, r.reasons>>))

\* mutant: the counter of every case the scan went through is incremented
matches_counts_scanned(cs, lvl, sn, parsed, body, target) ==
    LET r == into_request(parsed, body, target)
        none == [ok |-> FALSE, err |-> "Runtime", cause |-> "into_request", req |-> NoReq,
                 case |-> 0, invoked |-> <<>>, seen |-> sn, fut |-> NoFut,
                 printed |-> FALSE]
    IN  IF ~r.ok THEN none
        ELSE LET s == scan(cs, r.req, 1, <<>>)
             IN  CASE s.ret = "Match" ->
                        [none EXCEPT !.ok = TRUE, !.err = "none", !.cause = "",
                                     !.req = r.req, !.case = s.case,
                                     !.invoked = <<s.case>>,
                                     !.seen = [k \in DOMAIN sn |->
                                                  IF k <= s.case THEN sn[k] + 1
                                                  ELSE sn[k]],
                                     !.fut = returning(cs[s.case].returning, s.case)]
                   [] s.ret = "Err" ->
                        [none EXCEPT !.cause = "with", !.req = r.req]
                   [] s.ret = "NotFound" ->
                        [none EXCEPT !.err = "NotFound", !.cause = "", !.req = r.req,
                                     !.printed = (lvl >= LevelMissing)]

\* mutant: a request no case matches is counted on the last case
matches_counts_miss(cs, lvl, sn, parsed, body, target) ==
    LET r == into_request(parsed, body, target)
        none == [ok |-> FALSE, err |-> "Runtime", cause |-> "into_request", req |-> NoReq,
                 case |-> 0, invoked |-> <<>>, seen |-> sn, fut |-> NoFut,
                 printed |-> FALSE]
    IN  IF ~r.ok THEN none
        ELSE LET s == scan(cs, r.req, 1, <<>>)
             IN  CASE s.ret = "Match" ->
                        [none EXCEPT !.ok = TRUE, !.err = "none", !.cause = "",
                                     !.req = r.req, !.case = s.case,
                                     !.invoked = <<s.case>>,
                                     !.seen = [sn EXCEPT ![s.case] = @ + 1],
                                     !.fut = returning(cs[s.case].returning, s.case)]
                   [] s.ret = "Err" ->
                        [none EXCEPT !.cause = "with", !.req = r.req]
                   [] s.ret = "NotFound" ->
                        [none EXCEPT !.err = "NotFound", !.cause = "", !.req = r.req,
                                     !.seen = [k \in DOMAIN sn |->
                                                  IF k = Len(cs) THEN sn[k] + 1
                                                  ELSE sn[k]],
                                     !.printed = (lvl >= LevelMissing)]


\* mutant: the report is printed from level Error on
matches_prints_on_error(cs, lvl, sn, parsed, body, target) ==
    LET r == into_request(parsed, body, target)
        none == [ok |-> FALSE, err |-> "Runtime", cause |-> "into_request", req |-> NoReq,
                 case |-> 0, invoked |-> <<>>, seen |-> sn, fut |-> NoFut,
                 printed |-> FALSE]
    IN  IF ~r.ok THEN none
        ELSE LET s == scan(cs, r.req, 1, <<>>)
             IN  CASE s.ret = "Match" ->
                        [none EXCEPT !.ok = TRUE, !.err = "none", !.cause = "",
                                     !.req = r.req, !.case = s.case,
                                     !.invoked = <<s.case>>,
                                     !.seen = [sn EXCEPT ![s.case] = @ + 1],
                                     !.fut = returning(cs[s.case].returning, s.case)]
                   [] s.ret = "Err" ->
                        [none EXCEPT !.cause = "with", !.req = r.req]
                   [] s.ret = "NotFound" ->
                        [none EXCEPT !.err = "NotFound", !.cause = "", !.req = r.req,
                                     !.printed = (lvl >= LevelError)]
\* InnerConnector::matches
matches(cs, lvl, sn, parsed, body, target) ==
    LET r == into_request(parsed, body, target)
        none == [ok |-> FALSE, err |-> "Runtime", cause |-> "into_request", req |-> NoReq,
                 case |-> 0, invoked |-> <<>>, seen |-> sn, fut |-> NoFut,
                 printed |-> FALSE]
    IN  IF ~r.ok THEN none
        ELSE LET s == scan(cs, r.req, 1, <<>>)
             IN  CASE s.ret = "Match" ->
                        [none EXCEPT !.ok = TRUE, !.err = "none", !.cause = "",
                                     !.req = r.req, !.case = s.case,
                                     !.invoked = <<s.case>>,
                                     !.seen = [sn EXCEPT ![s.case] = @ + 1],
                                     !.fut = returning(cs[s.case].returning, s.case)]
                   [] s.ret = "Err" ->
                        [none EXCEPT !.cause = "with", !.req = r.req]
                   [] s.ret = "NotFound" ->
                        [none EXCEPT !.err = "NotFound", !.cause = "", !.req = r.req,
                                     !.printed = (lvl >= LevelMissing)]

\* Case::checkpoint: the case when it was not seen the declared number of times
Case_checkpoint(case, n) ==
    IF case.count.some /\ case.count.v # n
    THEN << [expected |-> case.count.v, got |-> n] >>
    ELSE <<>>

RECURSIVE collect_checkpoints(_, _, _)
collect_checkpoints(cs, sn, i) ==
    IF i > Len(cs) THEN <<>>
    ELSE (IF Case_checkpoint(cs[i], sn[i]) = <<>> THEN <<>>
          ELSE << [case |-> i, expected |-> cs[i].count.v, got |-> sn[i]] >>)
         \o collect_checkpoints(cs, sn, i + 1)

\* mutant: fails only when every case fails
checkpoint_all_failed(cs, sn) ==
    LET checkpoints == collect_checkpoints(cs, sn, 1)
    IN  IF Len(checkpoints) < Len(cs) \/ checkpoints = <<>>
        THEN [ok |-> TRUE, errors |-> <<>>]
        ELSE [ok |-> FALSE, errors |-> checkpoints]

\* mutant: reports the first failing case only
checkpoint_first_only(cs, sn) ==
    LET checkpoints == collect_checkpoints(cs, sn, 1)
    IN  IF checkpoints = <<>> THEN [ok |-> TRUE, errors |-> <<>>]
        ELSE [ok |-> FALSE, errors |-> <<checkpoints[1]>>]

\* InnerConnector::checkpoint
checkpoint(cs, sn) ==
    LET checkpoints == collect_checkpoints(cs, sn, 1)
    IN  IF checkpoints = <<>> THEN [ok |-> TRUE, errors |-> <<>>]
        ELSE [ok |-> FALSE, errors |-> checkpoints]

----------------------------------------------------------------------------
\* MockStream

New == [state |-> "New", fut |-> NoFut, data |-> <<>>, pos |-> 0]
Fut(f) == [state |-> "Fut", fut |-> f, data |-> <<>>, pos |-> 0]
Data(d, p) == [state |-> "Data", fut |-> NoFut, data |-> d, pos |-> p]

Min(a, b) == IF a <= b THEN a ELSE b

\* mutant: the blank line between the head and the body is left out
into_data_no_blank(out) ==
    IF \E i \in 1..Len(out.headers) : out.headers[i][2] = "OPAQUE"
    THEN [ok |-> FALSE, data |-> <<>>]
    ELSE [ok |-> TRUE,
          data |-> << <<"HTTP/1.1", ToString(out.status), ToString(out.status)>> >>
                   \o [i \in 1..Len(out.headers) |->
                          <<out.headers[i][1], ": ", out.headers[i][2]>>]
                   \o [i \in 1..Len(out.body) |-> <<out.body[i]>>]]

\* the serialized response: status line, header lines, blank line, body
into_data(out) ==
    IF \E i \in 1..Len(out.headers) : out.headers[i][2] = "OPAQUE"
    THEN [ok |-> FALSE, data |-> <<>>]
    ELSE [ok |-> TRUE,
          data |-> << <<"HTTP/1.1", ToString(out.status), ToString(out.status)>> >>
                   \o [i \in 1..Len(out.headers) |->
                          <<out.headers[i][1], ": ", out.headers[i][2]>>]
                   \o << <<"\r\n">> >>
                   \o [i \in 1..Len(out.body) |-> <<out.body[i]>>]]

NoCheckpoint == [valid |-> FALSE, calls |-> 0, ok |-> TRUE, errors |-> <<>>]

NoCall == [called |-> FALSE]

\* Result<WithHandler, Error>
Ok(w) == [ok |-> TRUE, w |-> w, err |-> ""]
Err(e) == [ok |-> FALSE, w |-> DefaultWith, err |-> e]

\* the builder; steps, bodies, first_bad and later are history: the with_* calls made,
\* the body constraints among them, the first call whose argument did not convert, and
\* the calls made after that one
NoBuilder ==
    [alive |-> FALSE, kind |-> "", with |-> Ok(DefaultWith), count |-> NoCount,
     steps |-> 0, bodies |-> 0, first_bad |-> "", later |-> 0]

NoSharedCheckpoint == [valid |-> FALSE, handle |-> 0, ok |-> TRUE, errors |-> <<>>]

NoLast ==
    [op |-> "none", cx |-> None, ret |-> "", kind |-> "", err |-> "", cause |-> "", n |-> 0,
     bytes |-> <<>>, status |-> "", dispatched |-> FALSE, case |-> 0, invoked |-> <<>>,
     woke |-> <<>>, req |-> NoReq, printed |-> FALSE, ck |-> <<>>]

\* mutant: the failure is dropped and the call returns Ready with nothing done
into_silent_ok(l, err, cause) ==
    [l EXCEPT !.ret = "Ready", !.n = 0]

\* into_connect_error
into_connect_error(l, err, cause) ==
    [l EXCEPT !.ret = "Err", !.kind = "ConnectionRefused", !.err = err, !.cause = cause]

\* mutant: the stored waker is woken by reference and stays stored
poll_write_keeps_waker(buf) ==
    LET data == req_data \o buf
        status == parse(data)
        body == IF status.status = "Complete"
                THEN Bytes(SubSeq(data, status.body_pos, Len(data)))
                ELSE <<>>
        m == matches(cases, level, seen, status, body, uri)
        l == [NoLast EXCEPT !.op = "write", !.status = status.status]
    IN  /\ req_data' = data
        /\ IF status.status = "Error"
           THEN /\ last' = into_connect_error(l, "Httparse", "parse")
                /\ UNCHANGED <<seen, res, waker, fut_waker, ck_hist>>
           ELSE IF ~m.ok
           THEN /\ last' = into_connect_error(
                               [l EXCEPT !.dispatched = TRUE, !.req = m.req,
                                         !.printed = m.printed],
                               m.err, m.cause)
                /\ seen' = m.seen
                /\ ck_hist' = NoCheckpoint
                /\ UNCHANGED <<res, waker, fut_waker>>
           ELSE /\ seen' = m.seen
                /\ res' = Fut(m.fut)
                /\ fut_waker' = None
                /\ waker' = waker
                /\ ck_hist' = NoCheckpoint
                /\ last' = [l EXCEPT !.ret = "Ready", !.n = Len(buf),
                                     !.dispatched = TRUE, !.req = m.req,
                                     !.case = m.case, !.invoked = m.invoked,
                                     !.woke = IF waker # None THEN <<waker>> ELSE <<>>]
        /\ UNCHANGED <<cases, level, uri>>
        /\ UNCHANGED <<shared, pure, building>>

\* mutant: a write that fails to parse forgets the stored waker
poll_write_drops_waker(buf) ==
    LET data == req_data \o buf
        status == parse(data)
        body == IF status.status = "Complete"
                THEN Bytes(SubSeq(data, status.body_pos, Len(data)))
                ELSE <<>>
        m == matches(cases, level, seen, status, body, uri)
        l == [NoLast EXCEPT !.op = "write", !.status = status.status]
    IN  /\ req_data' = data
        /\ IF status.status = "Error"
           THEN /\ last' = into_connect_error(l, "Httparse", "parse")
                /\ waker' = None
                /\ UNCHANGED <<seen, res, fut_waker, ck_hist>>
           ELSE IF ~m.ok
           THEN /\ last' = into_connect_error(
                               [l EXCEPT !.dispatched = TRUE, !.req = m.req,
                                         !.printed = m.printed],
                               m.err, m.cause)
                /\ seen' = m.seen
                /\ ck_hist' = NoCheckpoint
                /\ UNCHANGED <<res, waker, fut_waker>>
           ELSE /\ seen' = m.seen
                /\ res' = Fut(m.fut)
                /\ fut_waker' = None
                /\ waker' = None
                /\ ck_hist' = NoCheckpoint
                /\ last' = [l EXCEPT !.ret = "Ready", !.n = Len(buf),
                                     !.dispatched = TRUE, !.req = m.req,
                                     !.case = m.case, !.invoked = m.invoked,
                                     !.woke = IF waker # None THEN <<waker>> ELSE <<>>]
        /\ UNCHANGED <<cases, level, uri>>
        /\ UNCHANGED <<shared, pure, building>>

\* AsyncWrite::poll_write
poll_write(buf) ==
    LET data == req_data \o buf
        status == parse(data)
        body == IF status.status = "Complete"
                THEN Bytes(SubSeq(data, status.body_pos, Len(data)))
                ELSE <<>>
        m == matches(cases, level, seen, status, body, uri)
        l == [NoLast EXCEPT !.op = "write", !.status = status.status]
    IN  /\ req_data' = data
        /\ IF status.status = "Error"
           THEN /\ last' = into_connect_error(l, "Httparse", "parse")
                /\ UNCHANGED <<seen, res, waker, fut_waker, ck_hist>>
           ELSE IF ~m.ok
           THEN /\ last' = into_connect_error(
                               [l EXCEPT !.dispatched = TRUE, !.req = m.req,
                                         !.printed = m.printed],
                               m.err, m.cause)
                /\ seen' = m.seen
                /\ ck_hist' = NoCheckpoint
                /\ UNCHANGED <<res, waker, fut_waker>>
           ELSE /\ seen' = m.seen
                /\ res' = Fut(m.fut)
                /\ fut_waker' = None
                /\ waker' = None
                /\ ck_hist' = NoCheckpoint
                /\ last' = [l EXCEPT !.ret = "Ready", !.n = Len(buf),
                                     !.dispatched = TRUE, !.req = m.req,
                                     !.case = m.case, !.invoked = m.invoked,
                                     !.woke = IF waker # None THEN <<waker>> ELSE <<>>]
        /\ UNCHANGED <<cases, level, uri>>
        /\ UNCHANGED <<shared, pure, building>>

\* mutant: a read before any response returns at once with no byte
poll_read_busy(w, n) ==
    LET l == [NoLast EXCEPT !.op = "read", !.cx = w]
        d == IF res.state = "Fut" THEN into_data(res.fut.out)
             ELSE [ok |-> TRUE, data |-> res.data]
        pos == IF res.state = "Fut" THEN 0 ELSE res.pos
        size == Min(n, Len(d.data) - pos)
    IN  /\ CASE res.state = "New" ->
                  /\ waker' = w
                  /\ last' = [l EXCEPT !.ret = "Ready"]
                  /\ UNCHANGED <<res, fut_waker>>
             [] res.state = "Fut" /\ res.fut.done ->
                  /\ last' = [l EXCEPT !.ret = "Panic"]
                  /\ UNCHANGED <<res, waker, fut_waker>>
             [] res.state = "Fut" /\ ~res.fut.done /\ ~res.fut.ready ->
                  /\ fut_waker' = w
                  /\ last' = [l EXCEPT !.ret = "Pending"]
                  /\ UNCHANGED <<res, waker>>
             [] res.state = "Fut" /\ ~res.fut.done /\ res.fut.ready /\ ~res.fut.out.ok ->
                  /\ res' = [res EXCEPT !.fut.done = TRUE]
                  /\ last' = into_connect_error(l, "Runtime", "returning")
                  /\ UNCHANGED <<waker, fut_waker>>
             [] res.state = "Fut" /\ ~res.fut.done /\ res.fut.ready /\ res.fut.out.ok
                    /\ ~d.ok ->
                  /\ res' = [res EXCEPT !.fut.done = TRUE]
                  /\ last' = [l EXCEPT !.ret = "Err", !.kind = "BrokenPipe"]
                  /\ UNCHANGED <<waker, fut_waker>>
             [] OTHER ->
                  /\ res' = Data(d.data, pos + size)
                  /\ waker' = w
                  /\ last' = [l EXCEPT !.ret = "Ready", !.n = size,
                                       !.bytes = SubSeq(d.data, pos + 1, pos + size)]
                  /\ UNCHANGED fut_waker
        /\ UNCHANGED <<cases, level, seen, uri, req_data, ck_hist>>
        /\ UNCHANGED <<shared, pure, building>>


\* mutant: the position is set to the size of the last copy
poll_read_rewinds(w, n) ==
    LET l == [NoLast EXCEPT !.op = "read", !.cx = w]
        d == IF res.state = "Fut" THEN into_data(res.fut.out)
             ELSE [ok |-> TRUE, data |-> res.data]
        pos == IF res.state = "Fut" THEN 0 ELSE res.pos
        size == Min(n, Len(d.data) - pos)
    IN  /\ CASE res.state = "New" ->
                  /\ waker' = w
                  /\ last' = [l EXCEPT !.ret = "Pending"]
                  /\ UNCHANGED <<res, fut_waker>>
             [] res.state = "Fut" /\ res.fut.done ->
                  /\ last' = [l EXCEPT !.ret = "Panic"]
                  /\ UNCHANGED <<res, waker, fut_waker>>
             [] res.state = "Fut" /\ ~res.fut.done /\ ~res.fut.ready ->
                  /\ fut_waker' = w
                  /\ last' = [l EXCEPT !.ret = "Pending"]
                  /\ UNCHANGED <<res, waker>>
             [] res.state = "Fut" /\ ~res.fut.done /\ res.fut.ready /\ ~res.fut.out.ok ->
                  /\ res' = [res EXCEPT !.fut.done = TRUE]
                  /\ last' = into_connect_error(l, "Runtime", "returning")
                  /\ UNCHANGED <<waker, fut_waker>>
             [] res.state = "Fut" /\ ~res.fut.done /\ res.fut.ready /\ res.fut.out.ok
                    /\ ~d.ok ->
                  /\ res' = [res EXCEPT !.fut.done = TRUE]
                  /\ last' = [l EXCEPT !.ret = "Err", !.kind = "BrokenPipe"]
                  /\ UNCHANGED <<waker, fut_waker>>
             [] OTHER ->
                  /\ res' = Data(d.data, size)
                  /\ waker' = w
                  /\ last' = [l EXCEPT !.ret = "Ready", !.n = size,
                                       !.bytes = SubSeq(d.data, pos + 1, pos + size)]
                  /\ UNCHANGED fut_waker
        /\ UNCHANGED <<cases, level, seen, uri, req_data, ck_hist>>
        /\ UNCHANGED <<shared, pure, building>>
\* AsyncRead::poll_read with the caller's waker w and a buffer with room for n bytes
poll_read(w, n) ==
    LET l == [NoLast EXCEPT !.op = "read", !.cx = w]
        d == IF res.state = "Fut" THEN into_data(res.fut.out)
             ELSE [ok |-> TRUE, data |-> res.data]
        pos == IF res.state = "Fut" THEN 0 ELSE res.pos
        size == Min(n, Len(d.data) - pos)
    IN  /\ CASE res.state = "New" ->
                  /\ waker' = w
                  /\ last' = [l EXCEPT !.ret = "Pending"]
                  /\ UNCHANGED <<res, fut_waker>>
             [] res.state = "Fut" /\ res.fut.done ->
                  /\ last' = [l EXCEPT !.ret = "Panic"]
                  /\ UNCHANGED <<res, waker, fut_waker>>
             [] res.state = "Fut" /\ ~res.fut.done /\ ~res.fut.ready ->
                  /\ fut_waker' = w
                  /\ last' = [l EXCEPT !.ret = "Pending"]
                  /\ UNCHANGED <<res, waker>>
             [] res.state = "Fut" /\ ~res.fut.done /\ res.fut.ready /\ ~res.fut.out.ok ->
                  /\ res' = [res EXCEPT !.fut.done = TRUE]
                  /\ last' = into_connect_error(l, "Runtime", "returning")
                  /\ UNCHANGED <<waker, fut_waker>>
             [] res.state = "Fut" /\ ~res.fut.done /\ res.fut.ready /\ res.fut.out.ok
                    /\ ~d.ok ->
                  /\ res' = [res EXCEPT !.fut.done = TRUE]
                  /\ last' = [l EXCEPT !.ret = "Err", !.kind = "BrokenPipe"]
                  /\ UNCHANGED <<waker, fut_waker>>
             [] OTHER ->
                  /\ res' = Data(d.data, pos + size)
                  /\ waker' = w
                  /\ last' = [l EXCEPT !.ret = "Ready", !.n = size,
                                       !.bytes = SubSeq(d.data, pos + 1, pos + size)]
                  /\ UNCHANGED fut_waker
        /\ UNCHANGED <<cases, level, seen, uri, req_data, ck_hist>>
        /\ UNCHANGED <<shared, pure, building>>

\* the future of an async responder completes and wakes the task that polled it
FutureComplete ==
    /\ res.state = "Fut" /\ ~res.fut.ready
    /\ res' = [res EXCEPT !.fut.ready = TRUE]
    /\ fut_waker' = None
    /\ last' = [NoLast EXCEPT !.op = "future",
                              !.woke = IF fut_waker # None THEN <<fut_waker>> ELSE <<>>]
    /\ UNCHANGED <<cases, level, seen, uri, req_data, waker, ck_hist>>
    /\ UNCHANGED <<shared, pure, building>>

\* mutant: reading a counter resets it
Checkpoint_resets ==
    LET r == checkpoint(cases, seen)
    IN  /\ last' = [NoLast EXCEPT !.op = "checkpoint",
                                  !.ret = IF r.ok THEN "Ok" ELSE "Err",
                                  !.err = IF r.ok THEN "" ELSE "Checkpoint",
                                  !.ck = r.errors]
        /\ ck_hist' = [valid |-> TRUE, calls |-> IF ck_hist.valid THEN 2 ELSE 1,
                        ok |-> r.ok, errors |-> r.errors]
        /\ seen' = [i \in DOMAIN seen |-> 0]
        /\ UNCHANGED <<cases, level, uri, res, req_data, waker, fut_waker>>
        /\ UNCHANGED <<shared, pure, building>>

\* Connector::checkpoint
Checkpoint ==
    LET r == checkpoint(cases, seen)
    IN  /\ last' = [NoLast EXCEPT !.op = "checkpoint",
                                  !.ret = IF r.ok THEN "Ok" ELSE "Err",
                                  !.err = IF r.ok THEN "" ELSE "Checkpoint",
                                  !.ck = r.errors]
        /\ ck_hist' = [valid |-> TRUE, calls |-> IF ck_hist.valid THEN 2 ELSE 1,
                        ok |-> r.ok, errors |-> r.errors]
        /\ UNCHANGED <<cases, level, seen, uri, res, req_data, waker, fut_waker>>
        /\ UNCHANGED <<shared, pure, building>>

----------------------------------------------------------------------------
\* The connectors and the requests explored

TargetUri == Uri("x.test", "/")
UriA == Some(Uri("x.test", "/a"))
NoUriCheck == [some |-> FALSE, v |-> NoUri]

Case(w, r, count) == [with |-> w, returning |-> r, count |-> count]

CaseSet ==
    { Case(DefaultWith,
           AsyncResponse(200, << <<"a", "1">>, <<"b", "2">> >>, <<"hello">>), Some(1)),
      Case(WithHandler(UriA, None, <<>>, NoBody), Value(200, <<"OK">>), NoCount),
      Case(WithHandler(UriA, "POST", <<AtLeastOnce("x", "1")>>, BodyString(<<"hello">>)),
           Value(1000, <<>>), Some(1)),
      Case(Closure("fails"), Value(200, <<>>), Some(0)) }

\* every list of at most MaxCases different cases
CaseLists ==
    {l \in UNION {[1..n -> CaseSet] : n \in 0..MaxCases} :
        \A i, j \in 1..Len(l) : l[i] = l[j] => i = j}

\* a GET without body; a POST with a header and a body in two chunks; the same
\* POST with a body that is no UTF-8; bytes httparse rejects
WireRequests ==
    { <<TMethod("GET"), TPath("/a"), TEnd>>,
      <<TMethod("POST"), TPath("/a"), THeader("x", "1"), TEnd, TBody("hello"),
        TBody("world")>>,
      <<TMethod("POST"), TPath("/a"), THeader("x", "1"), TEnd, TBody(InvalidUtf8)>>,
      <<TMethod("GET"), TBad>> }

\* the next bytes of a request, split anywhere
NextWrites ==
    UNION { {SubSeq(m, Len(req_data) + 1, Len(req_data) + k) :
                k \in 1..(Len(m) - Len(req_data))} :
            m \in {x \in WireRequests : IsPrefix(req_data, x)} }

Init ==
    /\ cases \in CaseLists
    /\ level = LevelMissing
    /\ seen = [i \in 1..Len(cases) |-> 0]
    /\ uri = TargetUri
    /\ res = New
    /\ req_data = <<>>
    /\ waker = None
    /\ fut_waker = None
    /\ last = NoLast
    /\ ck_hist = NoCheckpoint
    /\ inners = <<>>
    /\ handles = <<>>
    /\ conns = <<>>
    /\ invoked = <<>>
    /\ ck_of = NoSharedCheckpoint
    /\ fn_in = NoCall
    /\ fn_out = NoCall
    /\ cb = NoBuilder
    /\ cb_ret = NoCall

PollWrite == \E buf \in NextWrites : poll_write(buf)

PollRead == \E w \in Wakers : \E n \in 0..MaxReadBuf : poll_read(w, n)

Next == PollWrite \/ PollRead \/ FutureComplete \/ Checkpoint

Spec == Init /\ [][Next]_vars

----------------------------------------------------------------------------
\* One transport on a connector built with any diagnostic level (Builder::level)

\* at most one case, so that requests that match nothing are frequent
LevelCaseLists == {l \in CaseLists : Len(l) <= 1}

InitLevel ==
    /\ cases \in LevelCaseLists
    /\ level \in Levels
    /\ seen = [i \in 1..Len(cases) |-> 0]
    /\ uri = TargetUri
    /\ res = New
    /\ req_data = <<>>
    /\ waker = None
    /\ fut_waker = None
    /\ last = NoLast
    /\ ck_hist = NoCheckpoint
    /\ inners = <<>>
    /\ handles = <<>>
    /\ conns = <<>>
    /\ invoked = <<>>
    /\ ck_of = NoSharedCheckpoint
    /\ fn_in = NoCall
    /\ fn_out = NoCall
    /\ cb = NoBuilder
    /\ cb_ret = NoCall

NextLevel == PollWrite \/ PollRead \/ FutureComplete \/ Checkpoint

SpecLevel == InitLevel /\ [][NextLevel]_vars

----------------------------------------------------------------------------
\* One transport that is sent a request with a chunked body

\* the bytes of the chunked framing: a size line, the CRLF after a chunk, the last chunk
TFraming(b) == Tok("body", "framing", b)

ChunkList == <<"hello ", "world!", "bye">>
SizeLine == <<"6\r\n", "6\r\n", "3\r\n">>

RECURSIVE Framed(_, _)
\* what the client writes for the first n chunks after the head of the request
Framed(n, i) ==
    IF i > n THEN <<TFraming("0\r\n\r\n")>>
    ELSE <<TFraming(SizeLine[i]), TBody(ChunkList[i]), TFraming("\r\n")>>
         \o Framed(n, i + 1)

ChunkedRequest(n) ==
    <<TMethod("POST"), TPath("/a"), THeader("transfer-encoding", "chunked"), TEnd>>
    \o Framed(n, 1)

ChunkedRequests == {ChunkedRequest(n) : n \in 1..MaxChunks}

\* cases as tests/stream.rs declares them, with the body as written on the wire or
\* with the payload alone
ChunkedCase(body) ==
    Case(WithHandler(NoUriCheck, "POST", <<AtLeastOnce("transfer-encoding", "chunked")>>,
                     BodyString(body)),
         Value(202, <<"OK">>), Some(1))

ChunkedCaseLists ==
    {<<>>}
    \cup {<<ChunkedCase(Bytes(Framed(n, 1)))>> : n \in 1..MaxChunks}
    \cup {<<ChunkedCase(SubSeq(ChunkList, 1, n))>> : n \in 1..MaxChunks}

NextChunkedWrites ==
    UNION { {SubSeq(m, Len(req_data) + 1, Len(req_data) + k) :
                k \in 1..(Len(m) - Len(req_data))} :
            m \in {x \in ChunkedRequests : IsPrefix(req_data, x)} }

InitChunked ==
    /\ cases \in ChunkedCaseLists
    /\ level = LevelMissing
    /\ seen = [i \in 1..Len(cases) |-> 0]
    /\ uri = TargetUri
    /\ res = New
    /\ req_data = <<>>
    /\ waker = None
    /\ fut_waker = None
    /\ last = NoLast
    /\ ck_hist = NoCheckpoint
    /\ inners = <<>>
    /\ handles = <<>>
    /\ conns = <<>>
    /\ invoked = <<>>
    /\ ck_of = NoSharedCheckpoint
    /\ fn_in = NoCall
    /\ fn_out = NoCall
    /\ cb = NoBuilder
    /\ cb_ret = NoCall

PollWriteChunked == \E buf \in NextChunkedWrites : poll_write(buf)

NextChunked == PollWriteChunked \/ PollRead

SpecChunked == InitChunked /\ [][NextChunked]_vars

----------------------------------------------------------------------------
\* One transport on a connector with JSON body constraints

JsonCaseSet ==
    { Case(WithHandler(NoUriCheck, None, <<>>, BodyJson(DocA1)), Value(200, <<"exact">>),
           NoCount),
      Case(WithHandler(NoUriCheck, "POST", <<>>, BodyJsonPartial(DocA1)),
           Value(200, <<"partial">>), NoCount),
      Case(WithHandler(NoUriCheck, None, <<>>, BodyString(<<"hello">>)),
           Value(200, <<"text">>), NoCount),
      Case(DefaultWith, Value(200, <<"any">>), NoCount) }

JsonCaseLists ==
    {l \in UNION {[1..n -> JsonCaseSet] : n \in 0..MaxCases} :
        \A i, j \in 1..Len(l) : l[i] = l[j] => i = j}

\* a POST without body, with a text body, with JSON bodies; a GET without body
JsonWireRequests ==
    { <<TMethod("GET"), TPath("/a"), TEnd>>,
      <<TMethod("POST"), TPath("/a"), TEnd>>,
      <<TMethod("POST"), TPath("/a"), TEnd, TBody("hello")>>,
      <<TMethod("POST"), TPath("/a"), TEnd, TBody("{\"a\":1}")>>,
      <<TMethod("POST"), TPath("/a"), TEnd, TBody("{\"a\":1,\"b\":2}")>> }

NextJsonWrites ==
    UNION { {SubSeq(m, Len(req_data) + 1, Len(req_data) + k) :
                k \in 1..(Len(m) - Len(req_data))} :
            m \in {x \in JsonWireRequests : IsPrefix(req_data, x)} }

InitJsonDispatch ==
    /\ cases \in JsonCaseLists
    /\ level = LevelMissing
    /\ seen = [i \in 1..Len(cases) |-> 0]
    /\ uri = TargetUri
    /\ res = New
    /\ req_data = <<>>
    /\ waker = None
    /\ fut_waker = None
    /\ last = NoLast
    /\ ck_hist = NoCheckpoint
    /\ inners = <<>>
    /\ handles = <<>>
    /\ conns = <<>>
    /\ invoked = <<>>
    /\ ck_of = NoSharedCheckpoint
    /\ fn_in = NoCall
    /\ fn_out = NoCall
    /\ cb = NoBuilder
    /\ cb_ret = NoCall

PollWriteJson == \E buf \in NextJsonWrites : poll_write(buf)

NextJsonDispatch == PollWriteJson \/ PollRead

SpecJsonDispatch == InitJsonDispatch /\ [][NextJsonDispatch]_vars

----------------------------------------------------------------------------
\* One transport on a connector whose only case answers every request with a literal

MaxBody == 1

\* bodies of at most MaxBody chunks
LiteralBodies == {SubSeq(<<"moved", "here", "now">>, 1, n) : n \in 0..MaxBody}

LiteralResponders ==
    {Str(b) : b \in LiteralBodies}
    \cup {Status(n) : n \in {99, 100, 204, 999, 1000}}
    \cup {Value(n, b) : n \in {0, 200, 404, 1000}, b \in LiteralBodies}

InitLiteral ==
    /\ cases \in {<<Case(DefaultWith, r, NoCount)>> : r \in LiteralResponders}
    /\ level = LevelMissing
    /\ seen = <<0>>
    /\ uri = TargetUri
    /\ res = New
    /\ req_data = <<>>
    /\ waker = None
    /\ fut_waker = None
    /\ last = NoLast
    /\ ck_hist = NoCheckpoint
    /\ inners = <<>>
    /\ handles = <<>>
    /\ conns = <<>>
    /\ invoked = <<>>
    /\ ck_of = NoSharedCheckpoint
    /\ fn_in = NoCall
    /\ fn_out = NoCall
    /\ cb = NoBuilder
    /\ cb_ret = NoCall

NextLiteral == PollWrite \/ PollRead

SpecLiteral == InitLiteral /\ [][NextLiteral]_vars

----------------------------------------------------------------------------
\* Several Connector handles and several transports on one registry.  The
\* transports may be driven by different threads: their dispatches interleave at
\* the accesses to the shared counters, so a dispatch is followed step by step.

\* a transport: where it is in its dispatch (pc), the allocation its Arc points
\* to, the case the scan selected, the response future; `old` is history: what
\* the selected counter held when the match was found
NoConn == [pc |-> "none", connector |-> 0, sel |-> 0, old |-> 0, fut |-> NoFut]

\* the request buffers written here, each in one poll_write: a GET of /a, a POST
\* of /a with a header and a body, a GET of /b
SharedWrites ==
    { <<TMethod("GET"), TPath("/a"), TEnd>>,
      <<TMethod("POST"), TPath("/a"), THeader("x", "1"), TEnd, TBody("hello")>>,
      <<TMethod("GET"), TPath("/b"), TEnd>> }

\* the case lists: a constrained case before one that matches every request
SharedCaseLists ==
    {l \in CaseLists : Len(l) = 2 /\ l[1].with.kind = "handler"
                                  /\ l[2].with.kind # "closure"}

\* mutant: a clone owns a copy of the registry and of its counters
Connector_clone_deep(ins, p) == [inners |-> Append(ins, ins[p]), ptr |-> Len(ins) + 1]

\* #[derive(Clone)] on Connector: Arc::clone, the same allocation
Connector_clone(ins, p) == [inners |-> ins, ptr |-> p]

\* mutant: the counter is loaded when the match is found and stored afterwards
load_then_store(sn, i, old) == [sn EXCEPT ![i] = old + 1]

\* case.seen.fetch_add(1, Ordering::Release): one atomic read-modify-write
fetch_add(sn, i, old) == [sn EXCEPT ![i] = @ + 1]

SharedClone(h) ==
    /\ Len(handles) < MaxHandles
    /\ LET c == Connector_clone(inners, handles[h])
       IN  /\ inners' = c.inners
           /\ handles' = Append(handles, c.ptr)
    /\ ck_of' = NoSharedCheckpoint
    /\ UNCHANGED <<cases, level, conns, invoked>>
    /\ UNCHANGED <<single, pure, building>>

\* Connector::call: a new transport holding the handle's Arc
SharedCall(h, t) ==
    /\ conns[t].pc = "none"
    /\ conns' = [conns EXCEPT ![t] = [NoConn EXCEPT !.pc = "new",
                                                   !.connector = handles[h]]]
    /\ ck_of' = NoSharedCheckpoint
    /\ UNCHANGED <<cases, level, inners, handles, invoked>>
    /\ UNCHANGED <<single, pure, building>>

\* poll_write up to the end of the scan of matches: only the immutable case list
\* is read
SharedScan(t, w) ==
    /\ conns[t].pc = "new"
    /\ LET status == parse(w)
           body == Bytes(SubSeq(w, status.body_pos, Len(w)))
           r == into_request(status, body, TargetUri)
           s == scan(cases, r.req, 1, <<>>)
       IN  conns' = [conns EXCEPT ![t] =
                       IF r.ok /\ s.ret = "Match"
                       THEN [@ EXCEPT !.pc = "matched", !.sel = s.case,
                                      !.old = inners[conns[t].connector].seen[s.case]]
                       ELSE [@ EXCEPT !.pc = "failed"]]
    /\ ck_of' = NoSharedCheckpoint
    /\ UNCHANGED <<cases, level, inners, handles, invoked>>
    /\ UNCHANGED <<single, pure, building>>

\* mutant: the count is taken back when the transport is dropped unread
SharedDrop_uncounts(t) ==
    /\ conns[t].pc \in {"new", "failed", "fut", "data", "err"}
    /\ conns' = [conns EXCEPT ![t] = [NoConn EXCEPT !.pc = "dropped"]]
    /\ inners' = IF conns[t].pc = "fut"
                 THEN [inners EXCEPT ![conns[t].connector].seen[conns[t].sel] = @ - 1]
                 ELSE inners
    /\ ck_of' = NoSharedCheckpoint
    /\ UNCHANGED <<cases, level, handles, invoked>>
    /\ UNCHANGED <<single, pure, building>>

\* the increment of the matched case's counter
SharedFetchAdd(t) ==
    /\ conns[t].pc = "matched"
    /\ inners' = [inners EXCEPT ![conns[t].connector].seen =
                                    fetch_add(@, conns[t].sel, conns[t].old)]
    /\ conns' = [conns EXCEPT ![t].pc = "counted"]
    /\ ck_of' = NoSharedCheckpoint
    /\ UNCHANGED <<cases, level, handles, invoked>>
    /\ UNCHANGED <<single, pure, building>>

\* the responder is invoked and poll_write stores its future
SharedReturning(t) ==
    /\ conns[t].pc = "counted"
    /\ conns' = [conns EXCEPT ![t] =
                    [@ EXCEPT !.pc = "fut",
                              !.fut = returning(cases[conns[t].sel].returning,
                                                 conns[t].sel)]]
    /\ invoked' = [invoked EXCEPT ![conns[t].sel] = @ + 1]
    /\ ck_of' = NoSharedCheckpoint
    /\ UNCHANGED <<cases, level, inners, handles>>
    /\ UNCHANGED <<single, pure, building>>

\* the future completes and a poll_read resolves it: data or an error
SharedResolve(t) ==
    /\ conns[t].pc = "fut"
    /\ conns' = [conns EXCEPT ![t].pc = IF conns[t].fut.out.ok THEN "data"
                                        ELSE "err"]
    /\ ck_of' = NoSharedCheckpoint
    /\ UNCHANGED <<cases, level, inners, handles, invoked>>
    /\ UNCHANGED <<single, pure, building>>

\* the transport is dropped: its fields go, the registry stays
SharedDrop(t) ==
    /\ conns[t].pc \in {"new", "failed", "fut", "data", "err"}
    /\ conns' = [conns EXCEPT ![t] = [NoConn EXCEPT !.pc = "dropped"]]
    /\ ck_of' = NoSharedCheckpoint
    /\ UNCHANGED <<cases, level, inners, handles, invoked>>
    /\ UNCHANGED <<single, pure, building>>

\* Connector::checkpoint on one handle
SharedCheckpoint(h) ==
    /\ LET r == checkpoint(cases, inners[handles[h]].seen)
       IN  ck_of' = [valid |-> TRUE, handle |-> h, ok |-> r.ok, errors |-> r.errors]
    /\ UNCHANGED <<cases, level, inners, handles, conns, invoked>>
    /\ UNCHANGED <<single, pure, building>>

InitShared ==
    /\ cases \in SharedCaseLists
    /\ level = LevelMissing
    /\ seen = [i \in 1..Len(cases) |-> 0]
    /\ uri = TargetUri
    /\ res = New
    /\ req_data = <<>>
    /\ waker = None
    /\ fut_waker = None
    /\ last = NoLast
    /\ ck_hist = NoCheckpoint
    /\ inners = << [seen |-> [i \in 1..Len(cases) |-> 0]] >>
    /\ handles = <<1>>
    /\ conns = [t \in 1..MaxStreams |-> NoConn]
    /\ invoked = [i \in 1..Len(cases) |-> 0]
    /\ ck_of = NoSharedCheckpoint
    /\ fn_in = NoCall
    /\ fn_out = NoCall
    /\ cb = NoBuilder
    /\ cb_ret = NoCall

Clone == \E h \in 1..Len(handles) : SharedClone(h)
Call == \E h \in 1..Len(handles) : \E t \in 1..MaxStreams : SharedCall(h, t)
Scan == \E t \in 1..MaxStreams : \E w \in SharedWrites : SharedScan(t, w)
FetchAdd == \E t \in 1..MaxStreams : SharedFetchAdd(t)
Returning == \E t \in 1..MaxStreams : SharedReturning(t)
Resolve == \E t \in 1..MaxStreams : SharedResolve(t)
Drop == \E t \in 1..MaxStreams : SharedDrop(t)
CheckpointOn == \E h \in 1..Len(handles) : SharedCheckpoint(h)

NextShared ==
    Clone \/ Call \/ Scan \/ FetchAdd \/ Returning \/ Resolve \/ Drop \/ CheckpointOn

SpecShared == InitShared /\ [][NextShared]_vars

----------------------------------------------------------------------------
\* The structured matcher applied to one request: With::with as a function of the
\* handler and the request

\* header entries a request may carry, in any order and with repetitions
ReqHeaderSet == { <<"x", "1">>, <<"x", "2">>, <<"y", "1">> }

ReqHeaderLists == UNION {[1..n -> ReqHeaderSet] : n \in 0..MaxReqHeaders}

\* the requests into_request can build for the target
RequestSet ==
    {[method |-> m, uri |-> [TargetUri EXCEPT !.path = p], headers |-> h, body |-> b] :
        m \in {"GET", "POST"}, p \in {"/a", "/b"}, h \in ReqHeaderLists,
        b \in { <<>>, <<"hello">>, <<"{\"a\":1}">>, <<"{\"a\":1,\"b\":2}">> }}

\* what with_header, with_header_once and with_header_all pushed
HeaderCheckLists ==
    { <<>>,
      <<AtLeastOnce("x", "1")>>,
      <<ExactlyOnce("x", "1")>>,
      <<All("x", <<"1", "2">>)>>,
      <<All("x", <<"1">>)>>,
      <<All("x", <<"1", "1">>)>>,
      <<AtLeastOnce("x", "1"), AtLeastOnce("y", "1")>>,
      <<AtLeastOnce("x", "1"), AtLeastOnce("x", "2")>> }

\* the handlers the structured builder can make
HandlerSet ==
    {WithHandler(u, m, h, b) :
        u \in {NoUriCheck, UriA}, m \in {None, "POST"}, h \in HeaderCheckLists,
        b \in {NoBody, BodyString(<<"hello">>), BodyJson(DocA1), BodyJsonPartial(DocA1)}}

InitWith ==
    /\ cases = <<>>
    /\ level = LevelMissing
    /\ seen = <<>>
    /\ uri = TargetUri
    /\ res = New
    /\ req_data = <<>>
    /\ waker = None
    /\ fut_waker = None
    /\ last = NoLast
    /\ ck_hist = NoCheckpoint
    /\ inners = <<>>
    /\ handles = <<>>
    /\ conns = <<>>
    /\ invoked = <<>>
    /\ ck_of = NoSharedCheckpoint
    /\ fn_in \in [with : HandlerSet, req : RequestSet]
    /\ fn_out = NoCall
    /\ cb = NoBuilder
    /\ cb_ret = NoCall

\* case.with.with(&req) of a structured case
CallWith ==
    /\ fn_out = NoCall
    /\ fn_out' = [called |-> TRUE, report |-> With_with(fn_in.with, fn_in.req)]
    /\ UNCHANGED <<cases, level, fn_in>>
    /\ UNCHANGED <<single, shared, building>>

NextWith == CallWith

SpecWith == InitWith /\ [][NextWith]_vars

----------------------------------------------------------------------------
\* The request rebuilt from a connection target and a request line, given to a case
\* declared with with_uri

UriOf(s, a, p) == [scheme |-> s, authority |-> a, path |-> p]

Schemes == {"http", "https"}
Authorities == {"x.test", "y.test"}
\* path and query of a request line: the first MaxPaths of these
PathList == <<"/", "/a", "/a?q=1", "/b", "/b?q=1", "/a?q=2">>
WirePaths == {PathList[i] : i \in 1..MaxPaths}

\* the Uri a transport is opened with
TargetSet == {UriOf(s, a, p) : s \in Schemes, a \in Authorities, p \in {"/", "/a"}}

\* the Uri a case is declared with
DeclaredSet == {UriOf(s, a, p) : s \in Schemes, a \in Authorities, p \in WirePaths}

InitUri ==
    /\ cases = <<>>
    /\ level = LevelMissing
    /\ seen = <<>>
    /\ uri = TargetUri
    /\ res = New
    /\ req_data = <<>>
    /\ waker = None
    /\ fut_waker = None
    /\ last = NoLast
    /\ ck_hist = NoCheckpoint
    /\ inners = <<>>
    /\ handles = <<>>
    /\ conns = <<>>
    /\ invoked = <<>>
    /\ ck_of = NoSharedCheckpoint
    /\ fn_in \in [target : TargetSet, path : WirePaths, declared : DeclaredSet]
    /\ fn_out = NoCall
    /\ cb = NoBuilder
    /\ cb_ret = NoCall

\* the head of InnerConnector::matches: into_request, then case.with.with(&req)
CallUri ==
    /\ fn_out = NoCall
    /\ LET parsed == parse(<<TMethod("GET"), TPath(fn_in.path), TEnd>>)
           r == into_request(parsed, <<>>, fn_in.target)
           w == WithHandler(Some(fn_in.declared), None, <<>>, NoBody)
       IN  fn_out' = [called |-> TRUE, req |-> r.req, report |-> With_with(w, r.req)]
    /\ UNCHANGED <<cases, level, fn_in>>
    /\ UNCHANGED <<single, shared, building>>

NextUri == CallUri

SpecUri == InitUri /\ [][NextUri]_vars

----------------------------------------------------------------------------
\* The first version of the crate: CaseRequest::matches of case.rs

NoStr == [some |-> FALSE, v |-> ""]
NoBytes == [some |-> FALSE, v |-> <<>>]

\* enum Match
Match_NoMatch == [matched |-> FALSE, n |-> 0]
Match_Match(n) == [matched |-> TRUE, n |-> n]

\* CaseRequest: the constraints declared with expect_path, expect_method,
\* expect_body_bytes / expect_body_str
CaseRequest(path, method, payload) == [path |-> path, method |-> method, payload |-> payload]

\* CaseRequest::matches, the comparisons as the source writes them
CaseRequest_matches(c, req, body) ==
    IF c.path.some /\ req.path = c.path THEN Match_NoMatch
    ELSE IF c.method.some /\ req.method = c.method THEN Match_NoMatch
    ELSE IF c.payload.some /\ body = c.payload.v THEN Match_NoMatch
    ELSE Match_Match((IF c.path.some THEN 1 ELSE 0) + (IF c.method.some THEN 1 ELSE 0)
                     + (IF c.payload.some THEN 1 ELSE 0))

LegacyBodies == { <<>>, <<"hello">> }

CaseRequestSet ==
    {CaseRequest(p, m, b) :
        p \in {NoStr} \cup {Some(x) : x \in WirePaths},
        m \in {NoStr, Some("GET"), Some("POST")},
        b \in {NoBytes} \cup {Some(x) : x \in LegacyBodies}}

\* what httparse leaves in Request::path and Request::method after a complete parse
LegacyRequestSet ==
    {[path |-> Some(p), method |-> Some(m)] : p \in WirePaths, m \in {"GET", "POST"}}

InitLegacy ==
    /\ cases = <<>>
    /\ level = LevelMissing
    /\ seen = <<>>
    /\ uri = TargetUri
    /\ res = New
    /\ req_data = <<>>
    /\ waker = None
    /\ fut_waker = None
    /\ last = NoLast
    /\ ck_hist = NoCheckpoint
    /\ inners = <<>>
    /\ handles = <<>>
    /\ conns = <<>>
    /\ invoked = <<>>
    /\ ck_of = NoSharedCheckpoint
    /\ fn_in \in [case : CaseRequestSet, req : LegacyRequestSet, body : LegacyBodies]
    /\ fn_out = NoCall
    /\ cb = NoBuilder
    /\ cb_ret = NoCall

\* case.matches(&req, body)
CallLegacy ==
    /\ fn_out = NoCall
    /\ fn_out' = [called |-> TRUE,
                  m |-> CaseRequest_matches(fn_in.case, fn_in.req, fn_in.body)]
    /\ UNCHANGED <<cases, level, fn_in>>
    /\ UNCHANGED <<single, shared, building>>

NextLegacy == CallLegacy

SpecLegacy == InitLegacy /\ [][NextLegacy]_vars

----------------------------------------------------------------------------
\* The matcher of handler/with.rs, whose With::with returns Result<bool, BoxError>

\* WithHandler of handler/with.rs: headers is the HeaderMap with_header inserts into,
\* one value for a name
BoolWithHandler(u, m, h, b) == [uri |-> u, method |-> m, headers |-> h, body |-> b]

\* HeaderMap::get: the first value of the name
HeaderMap_get(headers, key) ==
    LET at == {k \in 1..Len(headers) : headers[k][1] = key}
    IN  IF at = {} THEN NoStr
        ELSE Some(headers[CHOOSE k \in at : \A j \in at : k <= j][2])

\* With for WithHandler of handler/with.rs: the uri, then each header the request
\* has, then the body; Ok(true) when nothing returned before
BoolWithHandler_with(w, req) ==
    IF w.uri.some /\ req.uri # w.uri.v THEN [ok |-> TRUE, v |-> FALSE]
    ELSE IF \E i \in 1..Len(w.headers) :
               LET rv == HeaderMap_get(req.headers, w.headers[i][1])
               IN  IF rv.some THEN w.headers[i][2] # rv.v ELSE FALSE
         THEN [ok |-> TRUE, v |-> FALSE]
    ELSE IF w.body.kind = "String"
         THEN [ok |-> TRUE, v |-> w.body.v = req.body]
    ELSE IF w.body.kind = "Json"
         THEN IF ~from_str(req.body).ok THEN [ok |-> FALSE, v |-> FALSE]
              ELSE [ok |-> TRUE, v |-> w.body.json = from_str(req.body).v]
    ELSE [ok |-> TRUE, v |-> TRUE]

BoolHandlerSet ==
    {BoolWithHandler(u, m, h, b) :
        u \in {NoUriCheck, UriA}, m \in {None, "POST"},
        h \in { <<>>, << <<"x", "1">> >>, << <<"y", "1">> >>,
                << <<"x", "1">>, <<"y", "1">> >> },
        b \in {NoBody, BodyString(<<"hello">>), BodyJson(DocA1)}}

InitBool ==
    /\ cases = <<>>
    /\ level = LevelMissing
    /\ seen = <<>>
    /\ uri = TargetUri
    /\ res = New
    /\ req_data = <<>>
    /\ waker = None
    /\ fut_waker = None
    /\ last = NoLast
    /\ ck_hist = NoCheckpoint
    /\ inners = <<>>
    /\ handles = <<>>
    /\ conns = <<>>
    /\ invoked = <<>>
    /\ ck_of = NoSharedCheckpoint
    /\ fn_in \in [with : BoolHandlerSet, req : RequestSet]
    /\ fn_out = NoCall
    /\ cb = NoBuilder
    /\ cb_ret = NoCall

\* case.with.with(&req) of a case of handler/with.rs
CallBool ==
    /\ fn_out = NoCall
    /\ fn_out' = [called |-> TRUE, r |-> BoolWithHandler_with(fn_in.with, fn_in.req)]
    /\ UNCHANGED <<cases, level, fn_in>>
    /\ UNCHANGED <<single, shared, building>>

NextBool == CallBool

SpecBool == InitBool /\ [][NextBool]_vars

----------------------------------------------------------------------------
\* Declaring a case: Builder::expect, the with_* steps, times, returning

\* WithHandler::default()
WithHandler_default == WithHandler(NoUriCheck, None, <<>>, NoBody)

\* the argument of a with_* call: the method called, whether its argument converts
\* (TryInto, serde_json::to_value), and the converted value
StepIn(op, ok, u, m, h, b) ==
    [op |-> op, ok |-> ok, uri |-> u, method |-> m, header |-> h, body |-> b]

NoHeaderCheck == AtLeastOnce("", "")

BuilderSteps ==
    { StepIn("with_uri", TRUE, UriA, None, NoHeaderCheck, NoBody),
      StepIn("with_uri", FALSE, NoUriCheck, None, NoHeaderCheck, NoBody),
      StepIn("with_method", TRUE, NoUriCheck, "POST", NoHeaderCheck, NoBody),
      StepIn("with_method", FALSE, NoUriCheck, None, NoHeaderCheck, NoBody),
      StepIn("with_header", TRUE, NoUriCheck, None, AtLeastOnce("x", "1"), NoBody),
      StepIn("with_header", FALSE, NoUriCheck, None, NoHeaderCheck, NoBody),
      StepIn("with_header_once", TRUE, NoUriCheck, None, ExactlyOnce("x", "1"), NoBody),
      StepIn("with_header_all", TRUE, NoUriCheck, None, All("x", <<"1", "2">>), NoBody),
      StepIn("with_body", TRUE, NoUriCheck, None, NoHeaderCheck, BodyString(<<"hello">>)),
      StepIn("with_json", TRUE, NoUriCheck, None, NoHeaderCheck, BodyJson(DocA1)),
      StepIn("with_json", FALSE, NoUriCheck, None, NoHeaderCheck, NoBody),
      StepIn("with_json_partial", TRUE, NoUriCheck, None, NoHeaderCheck,
             BodyJsonPartial(DocA1)) }

BodySteps == {"with_body", "with_json", "with_json_partial"}

\* the with_* methods of WithHandler
WithHandler_apply(w, s) ==
    CASE s.op = "with_uri" ->
            IF s.ok THEN Ok([w EXCEPT !.uri = s.uri]) ELSE Err("with_uri")
      [] s.op = "with_method" ->
            IF s.ok THEN Ok([w EXCEPT !.method = s.method]) ELSE Err("with_method")
      [] s.op \in {"with_header", "with_header_once", "with_header_all"} ->
            IF s.ok THEN Ok([w EXCEPT !.headers = Append(@, s.header)]) ELSE Err(s.op)
      [] s.op = "with_body" -> Ok([w EXCEPT !.body = s.body])
      [] s.op \in {"with_json", "with_json_partial"} ->
            IF s.ok THEN Ok([w EXCEPT !.body = s.body]) ELSE Err(s.op)

\* CaseBuilder::new
CaseBuilder_new == [NoBuilder EXCEPT !.alive = TRUE, !.kind = "default"]

\* mutant: a step after a failed one starts again from an empty handler
CaseBuilder_with_retry(b, s) ==
    [b EXCEPT !.kind = "handler",
              !.with = IF b.kind = "default" \/ ~b.with.ok
                       THEN WithHandler_apply(WithHandler_default, s)
                       ELSE WithHandler_apply(b.with.w, s),
              !.steps = @ + 1,
              !.bodies = IF s.op \in BodySteps THEN @ + 1 ELSE @,
              !.first_bad = IF @ = "" /\ ~s.ok THEN s.op ELSE @,
              !.later = IF b.first_bad # "" THEN @ + 1 ELSE @]

\* a with_* call: on CaseBuilder<DefaultWith> it starts from WithHandler::default(),
\* on CaseBuilder<WithHandler> it goes through and_then (map for with_body)
CaseBuilder_with(b, s) ==
    [b EXCEPT !.kind = "handler",
              !.with = IF b.kind = "default"
                       THEN WithHandler_apply(WithHandler_default, s)
                       ELSE IF b.with.ok THEN WithHandler_apply(b.with.w, s)
                       ELSE b.with,
              !.steps = @ + 1,
              !.bodies = IF s.op \in BodySteps THEN @ + 1 ELSE @,
              !.first_bad = IF @ = "" /\ ~s.ok THEN s.op ELSE @,
              !.later = IF b.first_bad # "" THEN @ + 1 ELSE @]

\* CaseBuilder::times
CaseBuilder_times(b, n) == [b EXCEPT !.count = Some(n)]

\* CaseBuilder::returning: the result and the connector's case list
CaseBuilder_returning(b, r, cs) ==
    IF b.with.ok
    THEN [ok |-> TRUE, err |-> "", cases |-> Append(cs, Case(b.with.w, r, b.count))]
    ELSE [ok |-> FALSE, err |-> b.with.err, cases |-> cs]

\* the case lists a builder may find
BuiltLists == { <<>>, <<Case(DefaultWith, Value(200, <<"OK">>), NoCount)>> }

InitBuilder ==
    /\ cases \in BuiltLists
    /\ level = LevelMissing
    /\ seen = <<>>
    /\ uri = TargetUri
    /\ res = New
    /\ req_data = <<>>
    /\ waker = None
    /\ fut_waker = None
    /\ last = NoLast
    /\ ck_hist = NoCheckpoint
    /\ inners = <<>>
    /\ handles = <<>>
    /\ conns = <<>>
    /\ invoked = <<>>
    /\ ck_of = NoSharedCheckpoint
    /\ fn_in = NoCall
    /\ fn_out = NoCall
    /\ cb = NoBuilder
    /\ cb_ret = NoCall

\* Builder::expect
Expect ==
    /\ ~cb.alive /\ ~cb_ret.called
    /\ cb' = CaseBuilder_new
    /\ UNCHANGED <<cases, level, cb_ret>>
    /\ UNCHANGED <<single, shared, pure>>

WithStep ==
    /\ cb.alive /\ cb.steps < MaxSteps
    /\ \E s \in BuilderSteps : cb' = CaseBuilder_with(cb, s)
    /\ UNCHANGED <<cases, level, cb_ret>>
    /\ UNCHANGED <<single, shared, pure>>

Times ==
    /\ cb.alive /\ ~cb.count.some
    /\ \E n \in 0..1 : cb' = CaseBuilder_times(cb, n)
    /\ UNCHANGED <<cases, level, cb_ret>>
    /\ UNCHANGED <<single, shared, pure>>

\* returning consumes the builder
ReturningCall ==
    /\ cb.alive
    /\ LET r == CaseBuilder_returning(cb, Value(200, <<"OK">>), cases)
       IN  /\ cb_ret' = [called |-> TRUE, ok |-> r.ok, err |-> r.err]
           /\ cases' = r.cases
    /\ cb' = [cb EXCEPT !.alive = FALSE]
    /\ UNCHANGED level
    /\ UNCHANGED <<single, shared, pure>>

NextBuilder == Expect \/ WithStep \/ Times \/ ReturningCall

SpecBuilder == InitBuilder /\ [][NextBuilder]_vars

----------------------------------------------------------------------------
\* JsonEq::json_eq applied to two documents

JsonScalars == {JNull, JBool(TRUE), JNum("1"), JNum("2"), JStr("1")}

\* objects with scalar members, keys sorted
JsonFlatObjects ==
    { JObj(<<>>), JObj(<< <<"a", JNum("1")>> >>), JObj(<< <<"a", JNum("2")>> >>),
      JObj(<< <<"b", JNum("2")>> >>), DocA1B2,
      JObj(<< <<"a", JStr("1")>> >>) }

JsonElements == {JNum("1"), JNum("2"), DocA1, DocA1B2}

JsonArrays == {JArr(vs) : vs \in UNION {[1..n -> JsonElements] : n \in 0..MaxJsonLen}}

JsonNested ==
    { JObj(<< <<"a", DocA1>> >>), JObj(<< <<"a", DocA1B2>> >>),
      JObj(<< <<"a", JArr(<<JNum("1")>>)>> >>),
      JObj(<< <<"a", JArr(<<JNum("1"), JNum("2")>>)>> >>) }

JsonValues == JsonScalars \cup JsonFlatObjects \cup JsonArrays \cup JsonNested

InitJson ==
    /\ cases = <<>>
    /\ level = LevelMissing
    /\ seen = <<>>
    /\ uri = TargetUri
    /\ res = New
    /\ req_data = <<>>
    /\ waker = None
    /\ fut_waker = None
    /\ last = NoLast
    /\ ck_hist = NoCheckpoint
    /\ inners = <<>>
    /\ handles = <<>>
    /\ conns = <<>>
    /\ invoked = <<>>
    /\ ck_of = NoSharedCheckpoint
    /\ fn_in \in [a : JsonValues, b : JsonValues]
    /\ fn_out = NoCall
    /\ cb = NoBuilder
    /\ cb_ret = NoCall

\* body.json_eq(&payload)
CallJsonEq ==
    /\ fn_out = NoCall
    /\ fn_out' = [called |-> TRUE, result |-> json_eq(fn_in.a, fn_in.b)]
    /\ UNCHANGED <<cases, level, fn_in>>
    /\ UNCHANGED <<single, shared, building>>

NextJson == CallJsonEq

SpecJson == InitJson /\ [][NextJson]_vars

----------------------------------------------------------------------------
\* Properties

RECURSIVE SumTo(_, _)
SumTo(f, n) == IF n = 0 THEN 0 ELSE f[n] + SumTo(f, n - 1)

\* the total of all observed counts
TotalSeen == SumTo(seen, Len(seen))

\* the request poll_write reconstructs from the buffer `data`
RequestOf(data) ==
    LET status == parse(data)
    IN  into_request(status,
                     IF status.status = "Complete"
                     THEN Bytes(SubSeq(data, status.body_pos, Len(data)))
                     ELSE <<>>,
                     uri)

\* the cases whose matcher returns Match for req, every earlier matcher having
\* returned Mismatch: at most one
FirstMatch(req) ==
    {i \in 1..Len(cases) :
        /\ With_with(cases[i].with, req).match
        /\ \A j \in 1..(i - 1) : LET r == With_with(cases[j].with, req)
                                 IN  ~r.match /\ ~r.err}

\* the cases seen another number of times than they declare
Violators == {i \in 1..Len(cases) : cases[i].count.some /\ cases[i].count.v # seen[i]}

\* a step of poll_write: nothing else appends to req_data
WriteStep == req_data' # req_data

\* C1: a dispatch invokes the responder of the lowest-index case whose matcher
\* returns Match (every case before it having returned Mismatch) and of no other
\* case; when no such case exists no responder is invoked.
C1_FirstMatchWins ==
    (last.op = "write" /\ last.dispatched /\ last.cause # "into_request") =>
        /\ \A i \in FirstMatch(last.req) : last.invoked = <<i>>
        /\ FirstMatch(last.req) = {} => last.invoked = <<>>

\* an earlier case with the URI constraint alone and a later case with more
\* constraints both match the request, and the earlier one was selected
C1_Witness ==
    /\ last.op = "write" /\ last.invoked = <<1>> /\ Len(cases) >= 2
    /\ cases[1].with.kind = "handler" /\ cases[1].with.method = None
    /\ cases[2].with.kind = "handler" /\ cases[2].with.method # None
    /\ With_with(cases[1].with, last.req).match
    /\ With_with(cases[2].with, last.req).match

\* C2: a poll_write whose dispatch succeeds leaves the selected case's observed
\* count exactly one higher and every other case's count as it was.
C2_DispatchCountsOnce ==
    [][(WriteStep /\ last'.ret = "Ready") =>
          /\ last'.case \in 1..Len(cases)
          /\ last'.invoked = <<last'.case>>
          /\ seen' = [seen EXCEPT ![last'.case] = @ + 1]]_vars

\* the second of two cases was selected after the first mismatched
C2_Witness ==
    /\ last.op = "write" /\ last.ret = "Ready" /\ last.case = 2
    /\ seen[2] = 1 /\ seen[1] = 0

\* C3: when the request parses and every case's matcher returns Mismatch, the
\* dispatch fails with NotFound carrying the reconstructed request, no observed
\* count changes and checkpoint() gives the result it gave before.
C3_NoMatchIsNotFound ==
    [][WriteStep =>
          LET r == RequestOf(req_data')
          IN  (/\ parse(req_data').status # "Error"
               /\ r.ok
               /\ \A i \in 1..Len(cases) :
                     LET m == With_with(cases[i].with, r.req) IN ~m.match /\ ~m.err)
              => /\ last'.ret = "Err" /\ last'.err = "NotFound"
                 /\ last'.req = r.req
                 /\ seen' = seen
                 /\ checkpoint(cases', seen') = checkpoint(cases, seen)]_vars

\* a request matched nothing after an earlier dispatch had been counted
C3_Witness ==
    /\ last.op = "write" /\ last.err = "NotFound" /\ last.req = RequestOf(req_data).req
    /\ \E i \in 1..Len(cases) : seen[i] > 0

\* C4: checkpoint() returns Ok exactly when every case that declares a count was
\* seen that number of times; cases that declare none never make it fail.
C4_CheckpointExact ==
    last.op = "checkpoint" =>
        ((last.ret = "Ok") <=>
            \A i \in 1..Len(cases) : cases[i].count.some => seen[i] = cases[i].count.v)

\* a case declared with times(1) was seen twice and checkpoint() failed
C4_Witness ==
    /\ last.op = "checkpoint" /\ last.ret = "Err"
    /\ \E i \in 1..Len(cases) : cases[i].count = Some(1) /\ seen[i] = 2

\* C5: a failing checkpoint() returns one Checkpoint error with exactly one entry
\* for every case seen another number of times than it declares, and no other.
C5_CheckpointReportsAll ==
    (last.op = "checkpoint" /\ last.ret = "Err") =>
        /\ last.err = "Checkpoint"
        /\ {last.ck[k].case : k \in 1..Len(last.ck)} = Violators
        /\ Len(last.ck) = Cardinality(Violators)
        /\ \A k \in 1..Len(last.ck) :
              /\ last.ck[k].expected = cases[last.ck[k].case].count.v
              /\ last.ck[k].got = seen[last.ck[k].case]

\* two cases failed at once after a dispatch was counted
C5_Witness ==
    /\ last.op = "checkpoint" /\ Len(last.ck) = 2
    /\ \E i \in 1..Len(cases) : seen[i] > 0

\* C6: checkpoint() changes no count, no case and nothing of the transport, and
\* returns what the previous checkpoint() returned when no dispatch came between.
C6_CheckpointReadOnly ==
    [][last'.op = "checkpoint" =>
          /\ UNCHANGED <<cases, level, seen, uri, res, req_data, waker, fut_waker>>
          /\ ck_hist.valid =>
                /\ (last'.ret = "Ok") = ck_hist.ok
                /\ last'.ck = ck_hist.errors]_vars

\* checkpoint() failed twice in a row after a dispatch
C6_Witness ==
    /\ ck_hist.valid /\ ck_hist.calls = 2 /\ ~ck_hist.ok
    /\ \E i \in 1..Len(cases) : seen[i] > 0

\* C7: once the bytes of one request have all been written, in however many
\* poll_write calls, and a case matches that request, the total of the observed
\* counts is 1 and checkpoint() finds the matching case seen once.
C7_OneRequestOneCount ==
    (/\ req_data \in WireRequests
     /\ parse(req_data).status = "Complete"
     /\ RequestOf(req_data).ok
     /\ FirstMatch(RequestOf(req_data).req) # {})
    => /\ TotalSeen = 1
       /\ \A i \in FirstMatch(RequestOf(req_data).req) : seen[i] = 1

\* C8: a poll_write that leaves a partial request in the buffer keeps the
\* transport in ResponseState::New, does not dispatch, counts nothing and wakes
\* nobody.
C8_PartialKeepsAwaiting ==
    (last.op = "write" /\ last.status = "Partial") =>
        /\ res.state = "New"
        /\ ~last.dispatched
        /\ TotalSeen = 0
        /\ last.woke = <<>>

\* C9: a poll_read in ResponseState::New, or in Fut with a future that is not
\* ready, returns Pending, copies nothing and leaves the response state as it
\* was; in New it stores the caller's waker.  A read that copies bytes comes
\* after a dispatch was counted.
C9_ReadSuspends ==
    [][last'.op = "read" =>
          /\ (res.state = "New"
              \/ (res.state = "Fut" /\ ~res.fut.ready /\ ~res.fut.done))
             => /\ last'.ret = "Pending"
                /\ last'.n = 0 /\ last'.bytes = <<>>
                /\ res' = res
                /\ res.state = "New" => waker' = last'.cx
          /\ last'.bytes # <<>> =>
                /\ res.state # "New"
                /\ \E i \in 1..Len(cases) : seen[i] > 0]_vars

\* a read found the response future pending
C9_Witness ==
    /\ last.op = "read" /\ last.ret = "Pending"
    /\ res.state = "Fut" /\ ~res.fut.ready

\* C10: a poll_write whose dispatch succeeds wakes the stored waker, if there is
\* one, exactly once and clears it; in ResponseState::New the stored waker is the
\* one of the latest read, which was suspended; nothing but a read stores a waker.
C10_WriteWakesReader ==
    [][/\ (WriteStep /\ last'.ret = "Ready") =>
             /\ waker' = None
             /\ last'.woke = IF waker = None THEN <<>> ELSE <<waker>>
       /\ (last'.op = "read" /\ res.state = "New") =>
             /\ last'.ret = "Pending"
             /\ waker' = last'.cx
       /\ last'.op # "read" => waker' \in {waker, None}
       /\ waker' \in Wakers \cup {None}]_vars

\* a reader parked in ResponseState::New was woken by the dispatching write
C10_Witness ==
    /\ last.op = "write" /\ last.ret = "Ready" /\ last.woke # <<>>
    /\ waker = None /\ res.state = "Fut"

\* the units of a well-formed HTTP/1.1 response: a status line, header lines, one
\* blank line, then the body
WellFormed(d) ==
    /\ Len(d) >= 2
    /\ Len(d[1]) = 3 /\ d[1][1] = "HTTP/1.1"
    /\ \E k \in 2..Len(d) :
          /\ d[k] = <<"\r\n">>
          /\ \A j \in 2..(k - 1) : Len(d[j]) = 3 /\ d[j][2] = ": "
          /\ \A j \in (k + 1)..Len(d) : Len(d[j]) = 1

\* C11: after bytes that do not parse as an HTTP/1.1 request were written, a read
\* is not left suspended in ResponseState::New: it delivers a well-formed HTTP
\* error response.
C11_MalformedGetsErrorResponse ==
    (last.op = "read" /\ parse(req_data).status = "Error") =>
        /\ ~(last.ret = "Pending" /\ res.state = "New")
        /\ last.ret = "Ready" => (res.state = "Data" /\ WellFormed(res.data))

\* C12: a dispatch that fails (the body is no UTF-8, a matcher fails, or no case
\* matches) makes the poll_write return Err(ConnectionRefused) and leaves the
\* response state alone; a responder error makes the poll_read that resolves the
\* future return Err(ConnectionRefused) with no byte copied.
C12_DispatchFailureIsIoError ==
    [][/\ (/\ WriteStep
            /\ parse(req_data').status # "Error"
            /\ (~RequestOf(req_data').ok
                 \/ FirstMatch(RequestOf(req_data').req) = {}))
          => /\ last'.ret = "Err" /\ last'.kind = "ConnectionRefused"
             /\ last'.n = 0
             /\ res' = res
       /\ (/\ last'.op = "read"
            /\ res.state = "Fut" /\ res.fut.ready /\ ~res.fut.done
            /\ ~StatusCodeOk(cases[res.fut.case].returning.status))
          => /\ last'.ret = "Err" /\ last'.kind = "ConnectionRefused"
             /\ last'.n = 0 /\ last'.bytes = <<>>
             /\ res'.state # "Data"]_vars

\* a read resolved the future of a responder that failed
C12_Witness ==
    /\ last.op = "read" /\ last.ret = "Err" /\ last.kind = "ConnectionRefused"
    /\ last.err = "Runtime" /\ last.cause = "returning"
    /\ res.state = "Fut" /\ ~StatusCodeOk(cases[res.fut.case].returning.status)

\* C13: when a read was suspended in ResponseState::New and the next write fails
\* (parse error, matcher error or no matching case), the write wakes the stored
\* waker, and the read that follows the failed write does not return Pending.
C13_FailedWriteWakesReader ==
    [][/\ (WriteStep /\ last'.ret = "Err" /\ res.state = "New" /\ waker # None)
          => last'.woke = <<waker>>
       /\ (last.op = "write" /\ last.ret = "Err" /\ last'.op = "read")
          => last'.ret # "Pending"]_vars

\* the response as the case's responder declares it
Serialized(r) ==
    << <<"HTTP/1.1", ToString(r.status), ToString(r.status)>> >>
    \o [i \in 1..Len(r.headers) |-> <<r.headers[i][1], ": ", r.headers[i][2]>>]
    \o << <<"\r\n">> >>
    \o [i \in 1..Len(r.body) |-> <<r.body[i]>>]

SeenOf(h) == inners[handles[h]].seen

\* the dispatches that selected case i so far: those whose responder was invoked
\* and those counted whose responder is about to be
Dispatched(i) ==
    invoked[i] + Cardinality({t \in 1..MaxStreams :
                                 conns[t].pc = "counted" /\ conns[t].sel = i})

\* C15: a counter never goes down, whatever happens to the transport or its
\* future afterwards; when a responder is invoked the counter of its case
\* already includes that dispatch; and a checkpoint() counts every dispatch whose
\* responder was invoked, be its future pending, failed or dropped unread.
C15_CountBeforeResponder ==
    [][/\ \A p \in 1..Len(inners) : \A i \in 1..Len(cases) :
             inners'[p].seen[i] >= inners[p].seen[i]
       /\ \A t \in 1..MaxStreams :
             (conns[t].pc = "counted" /\ conns'[t].pc = "fut")
             => inners[conns[t].connector].seen[conns[t].sel]
                    >= invoked'[conns[t].sel]
       /\ ck_of'.valid =>
             \A i \in 1..Len(cases) :
                /\ SeenOf(ck_of'.handle)[i] >= invoked[i]
                /\ (cases[i].count.some /\ invoked[i] > cases[i].count.v)
                   => \E k \in 1..Len(ck_of'.errors) :
                         /\ ck_of'.errors[k].case = i
                         /\ ck_of'.errors[k].got >= invoked[i]]_vars

\* checkpoint() failed on a case seen twice, once through a transport dropped
\* since and once through one whose future is still pending
C15_Witness ==
    /\ ck_of.valid /\ ~ck_of.ok
    /\ \E t, u \in 1..MaxStreams :
          /\ conns[t].pc = "dropped"
          /\ conns[u].pc = "fut" /\ ~conns[u].fut.ready
          /\ invoked[conns[u].sel] = 2
          /\ cases[conns[u].sel].count = Some(1)

\* C16: however the dispatches of the transports interleave, each counter is the
\* number of dispatches that selected its case: no update is lost.
C16_NoLostUpdate ==
    \A h \in 1..Len(handles) : \A i \in 1..Len(cases) :
        SeenOf(h)[i] = Dispatched(i)

\* two transports found the same case before either counted it, and both counted
C16_Witness ==
    /\ conns[1].pc = "counted" /\ conns[2].pc = "counted"
    /\ conns[1].sel = conns[2].sel
    /\ conns[1].old = 0 /\ conns[2].old = 0
    /\ SeenOf(1)[conns[1].sel] = 2

\* C17: checkpoint() on any handle gives the result for the dispatches made
\* through every transport of every handle, and all handles give the same.
C17_ClonesShareRegistry ==
    /\ ck_of.valid =>
          LET r == checkpoint(cases, [i \in 1..Len(cases) |-> Dispatched(i)])
          IN  ck_of.ok = r.ok /\ ck_of.errors = r.errors
    /\ \A h, g \in 1..Len(handles) :
          checkpoint(cases, SeenOf(h)) = checkpoint(cases, SeenOf(g))

\* checkpoint() on the second handle failed on dispatches already made when the
\* handle was cloned or made after
C17_Witness ==
    /\ ck_of.valid /\ ck_of.handle = 2 /\ ~ck_of.ok
    /\ \E k \in 1..Len(ck_of.errors) : ck_of.errors[k].got > 0

\* what each constraint of a handler asks of a request
MethodHolds(w, req) == w.method = None \/ w.method = req.method
UriHolds(w, req) == ~w.uri.some \/ w.uri.v = req.uri
EntriesOf(req, name) == {k \in 1..Len(req.headers) : req.headers[k][1] = name}
HeaderHolds(c, req) ==
    CASE c.check = "AtLeastOnce" ->
            \E k \in EntriesOf(req, c.name) : req.headers[k][2] = c.values[1]
      [] c.check = "ExactlyOnce" ->
            /\ Cardinality(EntriesOf(req, c.name)) = 1
            /\ \A k \in EntriesOf(req, c.name) : req.headers[k][2] = c.values[1]
      [] c.check = "All" ->
            \A x \in {req.headers[k][2] : k \in EntriesOf(req, c.name)}
                     \cup Range(c.values) :
                Cardinality({k \in EntriesOf(req, c.name) : req.headers[k][2] = x})
                    = Occurrences(c.values, x)
BodyHolds(w, req) ==
    CASE w.body.kind = "None" -> TRUE
      [] w.body.kind = "String" -> w.body.v = req.body
      [] w.body.kind = "Json" -> from_str(req.body).ok /\ from_str(req.body).v = w.body.json
      [] w.body.kind = "JsonPartial" ->
            from_str(req.body).ok /\ json_eq(w.body.json, from_str(req.body).v)

\* the Reason of every constraint of the handler that the request fails
FailingReasons(w, req) ==
    (IF MethodHolds(w, req) THEN {} ELSE { <<"Method", "">> })
    \cup (IF UriHolds(w, req) THEN {} ELSE { <<"Uri", "">> })
    \cup { <<"Header", w.headers[k].name>> :
             k \in {j \in 1..Len(w.headers) : ~HeaderHolds(w.headers[j], req)} }
    \cup (IF BodyHolds(w, req) THEN {} ELSE { <<"Body", "">> })

\* C18: WithHandler::with returns Match iff the method, the URI, every header
\* constraint and the body constraint hold, and otherwise Mismatch with exactly
\* the Reason of every failing constraint.
C18_AllConstraintsReported ==
    fn_out.called =>
        /\ ~fn_out.report.err
        /\ fn_out.report.match <=> FailingReasons(fn_in.with, fn_in.req) = {}
        /\ fn_out.report.reasons = FailingReasons(fn_in.with, fn_in.req)

\* the lowest-index case whose matcher fails, every case before it having
\* returned Mismatch
FirstError(req) ==
    {i \in 1..Len(cases) :
        /\ With_with(cases[i].with, req).err
        /\ \A j \in 1..(i - 1) : LET r == With_with(cases[j].with, req)
                                 IN  ~r.match /\ ~r.err}

\* C19: when a matcher fails during the scan, the dispatch fails with that
\* error and not with NotFound, also when a later case matches; no count
\* changes and no responder is invoked.
C19_MatcherErrorPropagates ==
    [][(/\ WriteStep
        /\ parse(req_data').status # "Error"
        /\ RequestOf(req_data').ok
        /\ FirstError(RequestOf(req_data').req) # {})
       => /\ last'.ret = "Err" /\ last'.err = "Runtime" /\ last'.cause = "with"
          /\ last'.err # "NotFound"
          /\ seen' = seen
          /\ last'.invoked = <<>>
          /\ res' = res]_vars

\* the matcher of the first case failed while the second case matches every
\* request
C19_Witness ==
    /\ last.op = "write" /\ last.ret = "Err" /\ last.cause = "with"
    /\ Len(cases) = 2 /\ cases[1].with.kind = "closure" /\ cases[2].with.kind = "default"
    /\ seen = <<0, 0>>

\* C20: an at-least-once header constraint fails iff the request has no entry of
\* that name with the expected value (the Reason names the header, so it tells
\* the constraint when no other is on that name); when it fails the handler does
\* not match and a connector holding this case alone finds no case for the
\* request.
C20_HeaderAtLeastOnce ==
    fn_out.called =>
        \A k \in 1..Len(fn_in.with.headers) :
            LET c == fn_in.with.headers[k]
                present == \E j \in 1..Len(fn_in.req.headers) :
                              fn_in.req.headers[j] = <<c.name, c.values[1]>>
            IN  c.check = "AtLeastOnce" =>
                   /\ ~fn_out.report.err =>
                         /\ ~present => <<"Header", c.name>> \in fn_out.report.reasons
                         /\ (/\ present
                              /\ \A j \in 1..Len(fn_in.with.headers) :
                                    fn_in.with.headers[j].name = c.name => j = k)
                            => <<"Header", c.name>> \notin fn_out.report.reasons
                   /\ ~present =>
                         /\ ~fn_out.report.match
                         /\ scan(<<Case(fn_in.with, Value(200, <<>>), NoCount)>>,
                                 fn_in.req, 1, <<>>).ret # "Match"

\* the expected value is the second of two entries of that name, and the handler
\* matched
C20_Witness ==
    /\ fn_out.called /\ fn_out.report.match
    /\ fn_in.with.headers = <<AtLeastOnce("x", "1")>>
    /\ fn_in.req.headers = << <<"x", "2">>, <<"x", "1">> >>

\* the only constraint of handler w on the header name of its k-th constraint
SoleOnName(w, k) ==
    \A j \in 1..Len(w.headers) : w.headers[j].name = w.headers[k].name => j = k

\* the values of the request's entries of that name, in order
ValuesOf(req, name) ==
    LET sel == SelectSeq(req.headers, LAMBDA h : h[1] = name)
    IN  [i \in 1..Len(sel) |-> sel[i][2]]

\* C21: an exactly-once header constraint holds iff the request has one entry
\* of that name and it equals the expected value; with two entries of the name,
\* one of them equal, it fails while the at-least-once constraint for the same
\* name and value holds.
C21_HeaderExactlyOnce ==
    fn_out.called =>
        \A k \in 1..Len(fn_in.with.headers) :
            LET c == fn_in.with.headers[k]
                vs == ValuesOf(fn_in.req, c.name)
                atleast == [fn_in.with EXCEPT
                              !.headers[k] = AtLeastOnce(c.name, c.values[1])]
            IN  (c.check = "ExactlyOnce" /\ SoleOnName(fn_in.with, k)
                    /\ ~fn_out.report.err) =>
                   /\ <<"Header", c.name>> \notin fn_out.report.reasons
                         <=> vs = <<c.values[1]>>
                   /\ (Len(vs) = 2 /\ c.values[1] \in Range(vs)) =>
                         /\ ~fn_out.report.match
                         /\ <<"Header", c.name>> \in fn_out.report.reasons
                         /\ <<"Header", c.name>>
                               \notin With_with(atleast, fn_in.req).reasons

\* the request carries the expected value and another one for the name, and the
\* exactly-once handler reported the header
C21_Witness ==
    /\ fn_out.called /\ fn_out.report.reasons = { <<"Header", "x">> }
    /\ fn_in.with.headers = <<ExactlyOnce("x", "1")>>
    /\ fn_in.req.headers = << <<"x", "1">>, <<"x", "2">> >>

\* is t a permutation of s
IsPermutation(s, t) ==
    /\ Len(s) = Len(t)
    /\ \E f \in [1..Len(s) -> 1..Len(s)] :
          /\ \A i, j \in 1..Len(s) : f[i] = f[j] => i = j
          /\ \A i \in 1..Len(s) : t[f[i]] = s[i]

\* C22: an all constraint holds iff the request's values for the name are a
\* permutation of the expected values: fewer or more values fail, any order of
\* the expected values holds.
C22_HeaderAll ==
    fn_out.called =>
        \A k \in 1..Len(fn_in.with.headers) :
            LET c == fn_in.with.headers[k]
                vs == ValuesOf(fn_in.req, c.name)
            IN  (c.check = "All" /\ SoleOnName(fn_in.with, k) /\ ~fn_out.report.err) =>
                   /\ <<"Header", c.name>> \notin fn_out.report.reasons
                         <=> IsPermutation(c.values, vs)
                   /\ Len(vs) # Len(c.values) =>
                         /\ ~fn_out.report.match
                         /\ <<"Header", c.name>> \in fn_out.report.reasons

\* the request carries the two expected values in the other order, and the
\* handler matched
C22_Witness ==
    /\ fn_out.called /\ fn_out.report.match
    /\ fn_in.with.headers = <<All("x", <<"1", "2">>)>>
    /\ fn_in.req.headers = << <<"x", "2">>, <<"x", "1">> >>

\* the members of an object, as key and value pairs
Members(d) == {<<d.items[i].key, d.items[i].val>> : i \in 1..Len(d.items)}

\* an object all of whose members are scalars
IsFlatObject(d) ==
    /\ d.k = "object"
    /\ \A i \in 1..Len(d.items) : d.items[i].val.k \notin {"array", "object"}

\* C23: json_eq(a, a) holds; an object a is contained in an object b iff every
\* key of a is in b with a value that contains a's (for scalar members: the
\* members of a are members of b), so {"a":1} is contained in {"a":1,"b":2} and
\* not the other way round; values of different kinds are never contained.
C23_JsonContainment ==
    fn_out.called =>
        LET a == fn_in.a
            b == fn_in.b
        IN  /\ a = b => fn_out.result
            /\ a.k # b.k => ~fn_out.result
            /\ (IsFlatObject(a) /\ IsFlatObject(b)) =>
                  (fn_out.result <=> Members(a) \subseteq Members(b))
            /\ (a.k = "object" /\ b.k = "object") =>
                  (fn_out.result <=>
                     \A i \in 1..Len(a.items) : \E j \in 1..Len(b.items) :
                        /\ b.items[j].key = a.items[i].key
                        /\ json_eq(a.items[i].val, b.items[j].val))
            /\ (a = DocA1 /\ b = DocA1B2) => fn_out.result
            /\ (a = DocA1B2 /\ b = DocA1) => ~fn_out.result

\* {"a":1} was found contained in {"a":1,"b":2}
C23_Witness ==
    /\ fn_out.called /\ fn_out.result
    /\ fn_in.a = DocA1 /\ fn_in.b = DocA1B2

\* C24: an expected array is contained in an actual array iff every expected
\* element is equal to some element of the actual array.
C24_ArrayElementsEqual ==
    (fn_out.called /\ fn_in.a.k = "array" /\ fn_in.b.k = "array") =>
        (fn_out.result <=>
            \A i \in 1..Len(fn_in.a.items) : \E j \in 1..Len(fn_in.b.items) :
                fn_in.a.items[i].val = fn_in.b.items[j].val)

\* C25: an exact JSON constraint holds iff the body parses to a document equal
\* to the expected one; the body {"a":1,"b":2} against the expected {"a":1} gives
\* Mismatch with Reason Body, while the partial constraint for {"a":1} holds on it.
C25_JsonExact ==
    (fn_out.called /\ fn_in.with.body.kind = "Json") =>
        LET payload == from_str(fn_in.req.body)
            partial == [fn_in.with EXCEPT !.body = BodyJsonPartial(@.json)]
        IN  /\ ~payload.ok => ~fn_out.report.match
            /\ payload.ok =>
                  /\ ~fn_out.report.err
                  /\ <<"Body", "">> \notin fn_out.report.reasons
                        <=> payload.v = fn_in.with.body.json
            /\ (fn_in.with.body.json = DocA1 /\ payload.ok /\ payload.v = DocA1B2) =>
                  /\ ~fn_out.report.match
                  /\ <<"Body", "">> \in fn_out.report.reasons
                  /\ <<"Body", "">> \notin With_with(partial, fn_in.req).reasons

\* the body has a key more than the expected document and only the body was
\* reported
C25_Witness ==
    /\ fn_out.called /\ fn_in.with.body = BodyJson(DocA1)
    /\ fn_in.req.body = <<"{\"a\":1,\"b\":2}">>
    /\ fn_out.report.reasons = { <<"Body", "">> }

\* C26: once a case carries a body constraint, applying another one makes the
\* declaration fail: returning() does not succeed and registers nothing
C26_SecondBodyConstraintFails ==
    (cb_ret.called /\ cb.bodies >= 2 /\ cb.first_bad = "") => ~cb_ret.ok

\* C27: a with_* call after a failed one keeps the first error; returning() on a
\* failed builder returns that error and leaves the case list as it was, and on a
\* sound builder appends exactly one case, built from the handler and the count, at
\* the end of the list
C27_FirstErrorKept ==
    [][ /\ (cb.alive /\ cb'.alive /\ ~cb.with.ok) => cb'.with = cb.with
        /\ cb'.alive =>
              /\ cb'.with.ok <=> cb'.first_bad = ""
              /\ ~cb'.with.ok => cb'.with.err = cb'.first_bad
        /\ (cb.alive /\ ~cb'.alive) =>
              IF cb.first_bad # ""
              THEN /\ ~cb_ret'.ok
                   /\ cb_ret'.err = cb.first_bad
                   /\ cases' = cases
              ELSE /\ cb_ret'.ok
                   /\ Len(cases') = Len(cases) + 1
                   /\ SubSeq(cases', 1, Len(cases)) = cases
                   /\ cases'[Len(cases')].count = cb.count
                   /\ cases'[Len(cases')].with = cb.with.w ]_vars

C27_Witness ==
    /\ cb_ret.called /\ ~cb_ret.ok
    /\ cb.later >= 1
    /\ Len(cases) = 1

\* the status a literal responder is configured with
ConfiguredStatus(r) == IF r.lit = "str" THEN 200 ELSE r.status

C29_InvalidStatusIsError ==
    [][ LET r == cases[1].returning
            invalid == r.lit \in {"status", "tuple"} /\ r.status \notin 100..999
        IN  /\ (last'.op = "write" /\ last'.ret = "Ready" /\ invalid) =>
                  /\ res'.state = "Fut"
                  /\ ~res'.fut.out.ok
            /\ (last'.op = "read" /\ res.state = "Fut" /\ ~res.fut.done /\ invalid) =>
                  /\ last'.ret = "Err"
                  /\ last'.kind = "ConnectionRefused"
                  /\ last'.err = "Runtime"
                  /\ last'.bytes = <<>> /\ last'.n = 0
                  /\ res'.state = "Fut" /\ res'.fut.done ]_vars

C29_Witness ==
    /\ last.op = "read" /\ last.ret = "Err" /\ last.err = "Runtime"
    /\ res.state = "Fut" /\ res.fut.done
    /\ cases[1].returning.lit = "tuple" /\ cases[1].returning.status = 1000

\* C30: the request given to matchers has the scheme and authority of the connection
\* target and the path and query of the request line, so a case declared with
\* with_uri(u) matches exactly the requests sent to u: same scheme, authority, path
\* and query
C30_UriIsTargetPlusPath ==
    fn_out.called =>
        LET sent == UriOf(fn_in.target.scheme, fn_in.target.authority, fn_in.path)
        IN  /\ fn_out.req.uri.scheme = fn_in.target.scheme
            /\ fn_out.req.uri.authority = fn_in.target.authority
            /\ fn_out.req.uri.path = fn_in.path
            /\ ~fn_out.report.err
            /\ fn_out.report.match <=> fn_in.declared = sent
            /\ fn_in.declared # sent => fn_out.report.reasons = { <<"Uri", "">> }

C30_Witness ==
    /\ fn_out.called /\ fn_out.report.match
    /\ fn_in.target = UriOf("https", "y.test", "/")
    /\ fn_in.declared = UriOf("https", "y.test", "/a?q=1")

\* what a dispatch returns and leaves in the counters, whatever it prints
DispatchResult(lvl, data) ==
    LET status == parse(data)
        body == IF status.status = "Complete"
                THEN Bytes(SubSeq(data, status.body_pos, Len(data)))
                ELSE <<>>
        m == matches(cases, lvl, seen, status, body, uri)
    IN  [ok |-> m.ok, err |-> m.err, cause |-> m.cause, seen |-> m.seen, fut |-> m.fut]

\* C31: the levels are ordered None < Error < Missing and the default is Missing; the
\* report of a request that matches nothing is printed exactly when the level is at
\* least Missing, nothing is printed otherwise, and the level changes neither
\* the result of a dispatch (NotFound at every level) nor the counters
C31_LevelOnlyPrints ==
    [][ /\ Level_cmp(LevelNone, LevelError) = "Less"
        /\ Level_cmp(LevelError, LevelMissing) = "Less"
        /\ Level_cmp(LevelNone, LevelMissing) = "Less"
        /\ \A a, b \in Levels : Level_cmp(a, b) = "Equal" <=> a = b
        /\ Level_default = LevelMissing
        /\ WriteStep =>
              /\ last'.printed <=> (last'.err = "NotFound" /\ level = LevelMissing)
              /\ last'.err = "NotFound" => (last'.ret = "Err" /\ seen' = seen)
              /\ \A l \in Levels :
                    DispatchResult(l, req_data') = DispatchResult(level, req_data')
              /\ parse(req_data').status # "Error" =>
                    /\ seen' = DispatchResult(LevelNone, req_data').seen
                    /\ last'.err = (IF DispatchResult(LevelNone, req_data').ok THEN ""
                                    ELSE DispatchResult(LevelNone, req_data').err) ]_vars

C31_Witness ==
    /\ last.op = "write" /\ last.err = "NotFound" /\ ~last.printed
    /\ level = LevelError
    /\ Len(cases) = 1

\* the payload of a chunked request: its chunks without the framing
Payload(data) == Bytes(SelectSeq(data, LAMBDA t : t.t = "body" /\ t.n = ""))

\* C32: the body given to matchers for a request sent with chunked transfer encoding
\* is the payload, the chunks joined, and not the bytes of the framing
C32_ChunkedBodyReassembled ==
    [][ (WriteStep /\ req_data' \in ChunkedRequests) =>
           (last'.dispatched /\ last'.req.body = Payload(req_data')) ]_vars

\* C33: in every state Data(data, pos) the position lies within 0..len(data); a read
\* never moves it back nor changes the data, and the bytes it copies are the slice of
\* data from the old position to the new one, inside the data
C33_PosWithinData ==
    [][ /\ res'.state = "Data" => (0 <= res'.pos /\ res'.pos <= Len(res'.data))
        /\ (~WriteStep /\ res.state = "Data" /\ res'.state = "Data") =>
              /\ res'.data = res.data
              /\ res'.pos >= res.pos
        /\ (last'.op = "read" /\ last'.ret = "Ready") =>
              LET from == IF res.state = "Data" THEN res.pos ELSE 0
              IN  /\ res'.state = "Data"
                  /\ from + last'.n <= Len(res'.data)
                  /\ res'.pos = from + last'.n
                  /\ last'.bytes = [i \in 1..last'.n |-> res'.data[from + i]] ]_vars

C33_Witness ==
    /\ last.op = "read" /\ last.ret = "Ready" /\ last.n > 0
    /\ res.state = "Data" /\ res.pos = Len(res.data) /\ res.pos > last.n

\* C34: a transport serves one request: it never goes back to ResponseState::New, and
\* a poll_write that finds a pending future or a buffered response leaves them in
\* place, dispatches nothing and counts nothing
C34_OneRequestPerTransport ==
    [][ /\ res.state # "New" => res'.state # "New"
        /\ (WriteStep /\ res.state # "New") =>
              /\ res' = res
              /\ ~last'.dispatched
              /\ seen' = seen ]_vars

\* C35: a poll_read that sees the future resolve, with a response, with an error or
\* with a response that cannot be serialized, takes the transport out of
\* ResponseState::Fut, and no poll_read polls a future that has completed
C35_FutureNotPolledAgain ==
    [][ last'.op = "read" =>
          /\ (res.state = "Fut" /\ res.fut.ready) => res'.state # "Fut"
          /\ ~(res.state = "Fut" /\ res.fut.done)
          /\ last'.ret # "Panic" ]_vars

\* C36: a poll_write that returns an error leaves the response state and the stored
\* wakers as they were and keeps the written bytes in the buffer; no step ever
\* shortens the buffer
C36_FailedWriteFrame ==
    [][ /\ IsPrefix(req_data, req_data')
        /\ (WriteStep /\ last'.ret = "Err") =>
              /\ res' = res
              /\ waker' = waker
              /\ fut_waker' = fut_waker
              /\ Len(req_data') > Len(req_data)
              /\ \E m \in WireRequests : IsPrefix(req_data', m) ]_vars

C36_Witness ==
    /\ last.op = "write" /\ last.ret = "Err" /\ last.err = "Httparse"
    /\ waker # None
    /\ Len(req_data) >= 2

\* the body is one of the JSON texts
IsJsonText(body) ==
    body \in { <<"{\"a\":1}">>, <<"{\"a\":1,\"b\":2}">>, <<"{\"b\":2,\"a\":1}">>, <<"1">> }

\* the cases with a JSON body constraint that the scan reaches for the request: every
\* case before them is a structured case with another kind of body constraint, or
\* none, that the request fails
JsonReached(req) ==
    {i \in 1..Len(cases) :
        /\ cases[i].with.kind = "handler"
        /\ cases[i].with.body.kind \in {"Json", "JsonPartial"}
        /\ \A k \in 1..(i - 1) :
              /\ cases[k].with.kind = "handler"
              /\ cases[k].with.body.kind \notin {"Json", "JsonPartial"}
              /\ ~(MethodHolds(cases[k].with, req) /\ BodyHolds(cases[k].with, req))}

\* C37: a case with an exact or partial JSON body constraint that is evaluated on a
\* request whose body is no JSON text, an empty body included, gives a matcher error
\* and not a Mismatch on the body: the dispatch fails with that error, nothing is
\* counted or invoked, and the cases after it are not tried, not even one that matches
C37_NonJsonBodyIsMatcherError ==
    [][ (/\ WriteStep
         /\ parse(req_data').status # "Error"
         /\ RequestOf(req_data').ok
         /\ ~IsJsonText(RequestOf(req_data').req.body)
         /\ JsonReached(RequestOf(req_data').req) # {})
        => /\ \A i \in JsonReached(RequestOf(req_data').req) :
                 LET r == With_with(cases[i].with, RequestOf(req_data').req)
                 IN  r.err /\ ~r.match /\ r.reasons = {}
           /\ last'.ret = "Err" /\ last'.err = "Runtime" /\ last'.cause = "with"
           /\ seen' = seen
           /\ last'.invoked = <<>>
           /\ res' = res ]_vars

\* the JSON case failed on a text body while the case after it matches every request
C37_Witness ==
    /\ last.op = "write" /\ last.ret = "Err" /\ last.cause = "with"
    /\ last.req.body = <<"hello">>
    /\ Len(cases) = 2
    /\ cases[1].with.body.kind = "JsonPartial" /\ cases[2].with.kind = "default"
    /\ seen = <<0, 0>>

\* the constraints a legacy case declares, and those the request satisfies
Declared(c) ==
    (IF c.path.some THEN {"path"} ELSE {})
    \cup (IF c.method.some THEN {"method"} ELSE {})
    \cup (IF c.payload.some THEN {"payload"} ELSE {})

Satisfied(c, req, body) ==
    (IF c.path.some /\ req.path.v = c.path.v THEN {"path"} ELSE {})
    \cup (IF c.method.some /\ req.method.v = c.method.v THEN {"method"} ELSE {})
    \cup (IF c.payload.some /\ body = c.payload.v THEN {"payload"} ELSE {})

\* C38: CaseRequest::matches returns Match(k), k the number of declared constraints,
\* when the path, the method and the body of the request equal every declared
\* constraint, and NoMatch when one declared constraint differs
C38_LegacyMatches ==
    fn_out.called =>
        IF Satisfied(fn_in.case, fn_in.req, fn_in.body) = Declared(fn_in.case)
        THEN fn_out.m = Match_Match(Cardinality(Declared(fn_in.case)))
        ELSE fn_out.m = Match_NoMatch

\* C39: the WithHandler of handler/with.rs returns Ok(true) only when the request
\* satisfies every configured constraint: a request with another method than the
\* configured one, without a configured header, or with another value for it, gets
\* Ok(false)
C39_BoolHandlerChecksAll ==
    (fn_out.called /\ fn_out.r.ok /\ fn_out.r.v) =>
        /\ fn_in.with.method # None => fn_in.req.method = fn_in.with.method
        /\ \A i \in 1..Len(fn_in.with.headers) :
              \E k \in 1..Len(fn_in.req.headers) :
                 fn_in.req.headers[k] = fn_in.with.headers[i]

====
